---------------------------- MODULE Spec2Model ----------------------------
(***************************************************************************)
(* A model of the EvenniaPlugin blueprint library (EvenniaPlugin.cpp and   *)
(* EvenniaPluginBPLibrary.h): the TCP socket facade (Connect, SendMessage, *)
(* GetMessage, HasPendingData, CloseConnection over USocket / FSocket) and *)
(* the JSON handle facade (UJSONHandle, UJSONHandleArray, UJSONValue over  *)
(* FJsonObject / FJsonValue).                                              *)
(*                                                                         *)
(* The two halves share no state.  SpecSocket runs the socket facade and   *)
(* SpecJSON the JSON facade; SpecJSONBuild runs only the JSON calls that   *)
(* construct, mutate and serialize; Spec interleaves the two halves.  The  *)
(* other specifications (SpecJSONParse, SpecJSONIndex, SpecJSONTypes,      *)
(* SpecJSONAlias, SpecJSONArrays, SpecJSONFields, SpecJSONCast,            *)
(* SpecJSONKeys, SpecJSONElems, SpecJSONAttach) run the calls one property *)
(* is about, each stated next to that property.                            *)
(*                                                                         *)
(* Engine calls (FSocket, FTcpSocketBuilder, FIPv4Address, FJsonObject,    *)
(* FJsonSerializer) are modelled at the call sites of the plugin, with the *)
(* behaviour of the engine's BSD socket and Json modules.                  *)
(***************************************************************************)
EXTENDS Integers, Sequences, FiniteSets, TLC

(***************************************************************************)
(* Bounds of the model.                                                    *)
(***************************************************************************)
\* USocket objects the host holds (connected, closed or host-constructed).
MaxConns == 2
\* Connections the host keeps open at the same time.
MaxLive == 1
\* Bytes a socket buffers: received-and-unread plus still in flight.
MaxBuf == 2
\* The per-read ceiling of GetMessage, 65507u in the source, scaled to MaxBuf.
RecvCap == 1
\* Environment events (arrivals, read failures) chosen inside one GetMessage.
MaxSched == 2

(***************************************************************************)
(* Small helpers.                                                          *)
(***************************************************************************)
Min(a, b) ==
    IF a <= b THEN a ELSE b

Take(s, n) ==
    SubSeq(s, 1, Min(n, Len(s)))

Drop(s, n) ==
    SubSeq(s, Min(n, Len(s)) + 1, Len(s))

RECURSIVE Zeros(_)
Zeros(n) ==
    IF n <= 0 THEN << >> ELSE <<0>> \o Zeros(n - 1)

RECURSIVE Flatten(_)
Flatten(ss) ==
    IF ss = << >> THEN << >> ELSE Head(ss) \o Flatten(Tail(ss))

(***************************************************************************)
(* Text.  An FString is a sequence of character codes (no embedded NUL).   *)
(* 97, 98 are ASCII letters; 233 is a non-ASCII letter whose UTF-8 form    *)
(* takes two bytes.                                                        *)
(***************************************************************************)
Msgs ==
    { << >>, <<97, 98>>, <<233>> }

\* What the caller's Message variable may hold when GetMessage is called.
MsgVars ==
    { << >>, <<120>> }

\* TCHAR_TO_UTF8 on one character (one byte below 128, two bytes below 2048).
UTF8Char(ch) ==
    IF ch < 128 THEN <<ch>> ELSE <<192 + (ch \div 64), 128 + (ch % 64)>>

\* TCHAR_TO_UTF8 on a string.
UTF8(m) ==
    Flatten([i \in 1..Len(m) |-> UTF8Char(m[i])])

\* FCString::Strlen: the number of TCHARs, not of UTF-8 bytes.
Strlen(m) ==
    Len(m)

RECURSIVE CStr(_)
\* A NUL-terminated buffer read as a C string: the bytes before the first 0.
CStr(buf) ==
    IF buf = << >> \/ Head(buf) = 0 THEN << >> ELSE <<Head(buf)>> \o CStr(Tail(buf))

\* ANSI_TO_TCHAR: one character per byte; a byte above 127 has no ANSI
\* character and becomes '?' (63).
AnsiToTchar(buf) ==
    LET s == CStr(buf)
    IN [i \in 1..Len(s) |-> IF s[i] < 128 THEN s[i] ELSE 63]

(***************************************************************************)
(* The network.  Address 1 has an echo server listening on the port the    *)
(* host connects to; address 2 has no listener.  "bad" is a string that is *)
(* not an IPv4 literal.                                                    *)
(***************************************************************************)
Addrs ==
    {1, 2}

IPStrings ==
    {"ip1", "ip2", "bad"}

\* FIPv4Address::Parse: its boolean result.
ParseOK(ip) ==
    ip # "bad"

\* FIPv4Address::Parse: the address written to the out parameter on success.
ParseAddr(ip) ==
    IF ip = "ip1" THEN 1 ELSE 2

Listening(addr) ==
    addr = 1

(***************************************************************************)
(* State.                                                                  *)
(*   socks   the FSocket objects built by Connect, by descriptor id        *)
(*           (1..Len(socks)); 0 is nullptr.  An FSocket is never deleted   *)
(*           by the plugin.                                                *)
(*   conns   the USocket objects, by handle (1..Len(conns)); conns[c] is   *)
(*           its _Socket.  Handle 0 is a null USocket pointer.             *)
(*   slast   what the last socket operation was given and what it did.     *)
(*                                                                         *)
(*   objs    the FJsonObject nodes, by id (1..Len(objs)); 0 is a null      *)
(*           TSharedPtr<FJsonObject>.  objs[o] maps field names to values. *)
(*           Node 1 is the engine's shared EMPTY_OBJECT.                   *)
(*   hnds    the UJSONHandle objects, by handle; hnds[h] is the id of its  *)
(*           JSONObject.  Handle 0 is a null UJSONHandle pointer.          *)
(*   arrs    the UJSONHandleArray objects; arrs[a] is its JSONObjectArray. *)
(*   jvals   the UJSONValue objects; jvals[v] is its JSONValue.            *)
(*   jops    the number of JSON facade calls so far that made a handle or  *)
(*           changed an object or array.                                   *)
(*   jreads  the number of JSON facade calls so far that changed nothing.  *)
(*   jlast   what the last JSON operation was given and what it did.       *)
(*   names   the field names the host program passes in this run.          *)
(***************************************************************************)
VARIABLES socks, conns, slast, objs, hnds, arrs, jvals, jops, jreads, jlast,
          names

svars == <<socks, conns, slast>>

jvars == <<objs, hnds, arrs, jvals, jops, jreads, jlast, names>>

vars == <<socks, conns, slast, objs, hnds, arrs, jvals, jops, jreads, jlast, names>>

\* A freshly connected FSocket.  m1/hist remember the traffic for the echo
\* scenario: hist is "fresh" until a SendMessage returns true, "one" while
\* exactly one SendMessage has returned true (m1 its message) and no
\* GetMessage has run, and "other" afterwards.
NewSock ==
    [open |-> TRUE, err |-> FALSE, pending |-> << >>, inflight |-> << >>,
     closedOK |-> FALSE, hist |-> "fresh", m1 |-> << >>]

SNone ==
    [op |-> "none", conn |-> 0, desc |-> 0, live |-> FALSE, wasClosed |-> FALSE,
     validAfter |-> FALSE, ret |-> FALSE, fault |-> FALSE, calls |-> 0,
     msg |-> << >>, msgPre |-> << >>, msgPost |-> << >>,
     size |-> 0, sent |-> 0, wrote |-> FALSE,
     pendingAtStart |-> FALSE, nread |-> 0, allread |-> << >>, lastchunk |-> << >>,
     scenario |-> FALSE, m1 |-> << >>,
     parsed |-> FALSE, built |-> FALSE, shook |-> FALSE]

SocketInit ==
    /\ socks = << >>
    /\ conns = << >>
    /\ slast = SNone

(***************************************************************************)
(* USocket (EvenniaPluginBPLibrary.h) and the engine's FSocket.            *)
(***************************************************************************)
\* The handles a caller can pass: nullptr or a USocket it holds.
ConnArgs ==
    0..Len(conns)

\* USocket::GetSocket; for a null USocket there is no descriptor.
GetSocket(c) ==
    IF c = 0 THEN 0 ELSE conns[c]

\* USocket::IsValid
USocket_IsValid(c) ==
    GetSocket(c) # 0

\* ::IsValid(UObject*): the pointer is non-null (no USocket is ever destroyed
\* while the host holds it).
IsValid(c) ==
    c # 0

\* Whether the connection holds an open descriptor (it is Connected).
IsLive(c) ==
    IF GetSocket(c) = 0 THEN FALSE ELSE socks[GetSocket(c)].open

\* Whether CloseConnection has already returned true on this connection.
WasClosed(c) ==
    IF GetSocket(c) = 0 THEN FALSE ELSE socks[GetSocket(c)].closedOK

\* The number of descriptors that are open.
Live ==
    Cardinality({d \in 1..Len(socks) : socks[d].open})

\* FSocket::HasPendingData: false on a closed descriptor or one in error.
FSocket_HasPendingData(sk) ==
    sk.open /\ ~sk.err /\ sk.pending # << >>

\* FSocket::Close: closes an open descriptor (closesocket may report an error,
\* osOK); the descriptor is invalid afterwards either way, and closing an
\* invalid descriptor returns false.
FSocket_Close(sk, osOK) ==
    [ret |-> sk.open /\ osOK,
     sock |-> [sk EXCEPT !.open = FALSE, !.pending = << >>, !.inflight = << >>,
                         !.closedOK = @ \/ (sk.open /\ osOK),
                         !.hist = "other", !.m1 = << >>]]

\* FSocket::Send of `count` bytes of data.  how is what the platform does:
\* "all" accepts every byte, "short" accepts one byte fewer and still reports
\* success, "fail" reports failure.  A closed descriptor always fails.  The
\* echo peer returns every accepted byte.
FSocket_Send(sk, data, count, how) ==
    LET fails == ~sk.open \/ sk.err \/ how = "fail"
        n == IF fails THEN 0 ELSE IF how = "short" THEN count - 1 ELSE count
    IN [ok |-> ~fails,
        sent |-> IF fails THEN -1 ELSE n,
        sock |-> IF fails THEN sk
                 ELSE [sk EXCEPT !.inflight = @ \o Take(data, n)]]

\* FSocket::Recv into a buffer of n bytes: on success the first n pending
\* bytes; on failure (connection reset) nothing is read and the descriptor is
\* in error.
FSocket_Recv(sk, n, fail) ==
    IF fail
    THEN [read |-> << >>,
          sock |-> [sk EXCEPT !.err = TRUE, !.pending = << >>, !.inflight = << >>]]
    ELSE [read |-> Take(sk.pending, n), sock |-> [sk EXCEPT !.pending = Drop(@, n)]]

\* The network delivers k more of the bytes in flight.
Arrive(sk, k) ==
    [sk EXCEPT !.pending = @ \o Take(sk.inflight, k), !.inflight = Drop(@, k)]


(***************************************************************************)
(* The socket facade.  Each XxxResult operator is the body of the handler  *)
(* as a function of its arguments, the state and what the platform does;   *)
(* the action of the same name applies it.                                 *)
(***************************************************************************)
\* Connect (EvenniaPlugin.cpp:49-105).  uninit is the value the uninitialised
\* FIPv4Address holds when Parse fails: Parse's result is not looked at.
\* built says whether FTcpSocketBuilder::Build returned a socket.
ConnectResult(ip, uninit, built) ==
    LET parsed == ParseOK(ip)
        ipv4ip == IF parsed THEN ParseAddr(ip) ELSE uninit
        didConnect == IF built THEN Listening(ipv4ip) ELSE FALSE
    IN [parsed |-> parsed, built |-> built, shook |-> didConnect,
        success |-> didConnect]

Connect ==
    \E ip \in IPStrings, uninit \in Addrs, built \in BOOLEAN :
        LET r == ConnectResult(ip, uninit, built)
            c == IF r.success THEN Len(conns) + 1 ELSE 0
        IN /\ Len(conns) < MaxConns
           /\ r.success => Live < MaxLive
           /\ conns' = IF r.success THEN Append(conns, Len(socks) + 1) ELSE conns
           /\ socks' = IF r.success THEN Append(socks, NewSock) ELSE socks
           /\ slast' = [SNone EXCEPT !.op = "Connect", !.conn = c,
                           !.desc = IF r.success THEN Len(socks) + 1 ELSE 0,
                           !.validAfter = r.success, !.ret = r.success,
                           !.parsed = r.parsed, !.built = r.built, !.shook = r.shook]
           /\ UNCHANGED jvars

\* The host constructs a USocket itself (UCLASS(BlueprintType), header 67-84):
\* UObject memory is zeroed, so its _Socket is nullptr.
NewUSocket ==
    /\ Len(conns) < MaxConns
    /\ conns' = Append(conns, 0)
    /\ slast' = [SNone EXCEPT !.op = "NewUSocket", !.conn = Len(conns) + 1]
    /\ UNCHANGED <<socks, jvars>>

\* What a handler that returns before touching the socket reports.
Refused ==
    [ret |-> FALSE, fault |-> FALSE, calls |-> 0, size |-> 0, sent |-> 0,
     wrote |-> FALSE, sock |-> NewSock]

\* SendMessage with the result of the write ignored.
SendMessageResult_IgnoresWrite(c, m, how) ==
    IF ~IsValid(c) THEN Refused
    ELSE IF GetSocket(c) = 0 THEN Refused
    ELSE IF m = << >> THEN Refused
    ELSE LET size == Strlen(m)
             r == FSocket_Send(socks[GetSocket(c)], UTF8(m), size, how)
         IN [ret |-> TRUE, fault |-> FALSE, calls |-> 1, size |-> size,
             sent |-> r.sent, wrote |-> r.ok, sock |-> r.sock]

\* SendMessage (EvenniaPlugin.cpp:107-143).
SendMessageResult(c, m, how) ==
    IF ~IsValid(c) THEN Refused
    ELSE IF GetSocket(c) = 0 THEN Refused
    ELSE IF m = << >> THEN Refused      \* GetCharArray().GetData() is null
    ELSE LET size == Strlen(m)
             r == FSocket_Send(socks[GetSocket(c)], UTF8(m), size, how)
         IN [ret |-> r.ok, fault |-> FALSE, calls |-> 1, size |-> size,
             sent |-> r.sent, wrote |-> r.ok, sock |-> r.sock]

\* The ways the platform can treat one write of message m.
SendHows(m) ==
    IF Strlen(m) >= 2 THEN {"all", "short", "fail"} ELSE {"all", "fail"}

SendMessage ==
    \E c \in ConnArgs, m \in Msgs :
      \E how \in SendHows(m) :
        LET r == SendMessageResult(c, m, how)
            d == GetSocket(c)
            sk == IF r.ret
                  THEN [r.sock EXCEPT
                          !.hist = IF @ = "fresh" THEN "one" ELSE "other",
                          !.m1 = IF r.sock.hist = "fresh" THEN m ELSE << >>]
                  ELSE r.sock
        IN /\ r.calls > 0 => Len(sk.pending) + Len(sk.inflight) <= MaxBuf
           /\ socks' = IF r.calls > 0 THEN [socks EXCEPT ![d] = sk] ELSE socks
           /\ slast' = [SNone EXCEPT !.op = "SendMessage", !.conn = c, !.desc = d,
                           !.wasClosed = WasClosed(c), !.live = IsLive(c),
                           !.validAfter = USocket_IsValid(c),
                           !.ret = r.ret, !.fault = r.fault, !.calls = r.calls,
                           !.msg = m, !.size = r.size, !.sent = r.sent,
                           !.wrote = r.wrote]
           /\ UNCHANGED <<conns, jvars>>

\* What the platform may do after one read of GetMessage's loop: the read
\* fails, or `arrive` more bytes arrive before the next HasPendingData.
Events(k) ==
    [fail : BOOLEAN, arrive : 0..k]

\* The schedules GetMessage can meet on descriptor d: none matters when
\* nothing is pending, since the loop does not run.
Scheds(d) ==
    IF d = 0 THEN { << >> }
    ELSE IF ~FSocket_HasPendingData(socks[d]) THEN { << >> }
    ELSE UNION { [1..n -> Events(Len(socks[d].inflight))] : n \in 0..MaxSched }

RECURSIVE RecvLoop(_, _, _, _, _)
\* The loop of GetMessage (EvenniaPlugin.cpp:164-169): while data is pending,
\* BinaryData is re-initialised to min(Size, cap) zero bytes and one Recv
\* writes into it.
RecvLoop(sk, buf, allread, calls, sched) ==
    IF ~FSocket_HasPendingData(sk)
    THEN [sock |-> sk, buf |-> buf, allread |-> allread, calls |-> calls + 1]
    ELSE LET n == Min(Len(sk.pending), RecvCap)
             ev == IF sched = << >> THEN [fail |-> FALSE, arrive |-> 0]
                   ELSE Head(sched)
             r == FSocket_Recv(sk, n, ev.fail)
         IN RecvLoop(Arrive(r.sock, ev.arrive),
                     r.read \o Zeros(n - Len(r.read)),
                     allread \o r.read,
                     calls + 2,
                     IF sched = << >> THEN << >> ELSE Tail(sched))

\* GetMessage with Message cleared before the connection is looked at.
GetMessageResult_ClearsFirst(c, msg, sched) ==
    IF ~IsValid(c) \/ GetSocket(c) = 0
    THEN [ret |-> FALSE, fault |-> FALSE, calls |-> 0, msg |-> << >>,
          allread |-> << >>, lastchunk |-> << >>, sock |-> NewSock]
    ELSE LET l == RecvLoop(socks[GetSocket(c)], << >>, << >>, 0, sched)
         IN IF Len(l.buf) <= 0
            THEN [ret |-> FALSE, fault |-> FALSE, calls |-> l.calls, msg |-> << >>,
                  allread |-> l.allread, lastchunk |-> l.buf, sock |-> l.sock]
            ELSE [ret |-> TRUE, fault |-> FALSE, calls |-> l.calls,
                  msg |-> AnsiToTchar(l.buf \o <<0>>),
                  allread |-> l.allread, lastchunk |-> l.buf, sock |-> l.sock]

\* GetMessage with the chunks of every iteration kept and decoded together.
GetMessageResult_DecodesAll(c, msg, sched) ==
    IF ~IsValid(c) \/ GetSocket(c) = 0
    THEN [ret |-> FALSE, fault |-> FALSE, calls |-> 0, msg |-> msg,
          allread |-> << >>, lastchunk |-> << >>, sock |-> NewSock]
    ELSE LET l == RecvLoop(socks[GetSocket(c)], << >>, << >>, 0, sched)
         IN IF Len(l.buf) <= 0
            THEN [ret |-> FALSE, fault |-> FALSE, calls |-> l.calls, msg |-> msg,
                  allread |-> l.allread, lastchunk |-> l.buf, sock |-> l.sock]
            ELSE [ret |-> TRUE, fault |-> FALSE, calls |-> l.calls,
                  msg |-> AnsiToTchar(l.allread \o <<0>>),
                  allread |-> l.allread, lastchunk |-> l.buf, sock |-> l.sock]

\* GetMessage (EvenniaPlugin.cpp:145-184).  msg is the caller's Message.
GetMessageResult(c, msg, sched) ==
    IF ~IsValid(c) \/ GetSocket(c) = 0
    THEN [ret |-> FALSE, fault |-> FALSE, calls |-> 0, msg |-> msg,
          allread |-> << >>, lastchunk |-> << >>, sock |-> NewSock]
    ELSE LET l == RecvLoop(socks[GetSocket(c)], << >>, << >>, 0, sched)
         IN IF Len(l.buf) <= 0
            THEN [ret |-> FALSE, fault |-> FALSE, calls |-> l.calls, msg |-> msg,
                  allread |-> l.allread, lastchunk |-> l.buf, sock |-> l.sock]
            ELSE [ret |-> TRUE, fault |-> FALSE, calls |-> l.calls,
                  msg |-> AnsiToTchar(l.buf \o <<0>>),
                  allread |-> l.allread, lastchunk |-> l.buf, sock |-> l.sock]

GetMessage ==
    \E c \in ConnArgs, msgVar \in MsgVars :
      \E sched \in Scheds(GetSocket(c)) :
        LET r == GetMessageResult(c, msgVar, sched)
            d == GetSocket(c)
            sk0 == IF d = 0 THEN NewSock ELSE socks[d]
        IN /\ socks' = IF r.calls > 0
                       THEN [socks EXCEPT ![d] = [r.sock EXCEPT !.hist = "other",
                                                                !.m1 = << >>]]
                       ELSE socks
           /\ slast' = [SNone EXCEPT !.op = "GetMessage", !.conn = c, !.desc = d,
                           !.wasClosed = WasClosed(c), !.live = IsLive(c),
                           !.validAfter = USocket_IsValid(c),
                           !.ret = r.ret, !.fault = r.fault, !.calls = r.calls,
                           !.msgPre = msgVar, !.msgPost = r.msg,
                           !.pendingAtStart = (d # 0 /\ FSocket_HasPendingData(sk0)),
                           !.nread = Len(r.allread), !.allread = r.allread,
                           !.lastchunk = r.lastchunk,
                           !.scenario = (d # 0 /\ sk0.hist = "one"),
                           !.m1 = sk0.m1]
           /\ UNCHANGED <<conns, jvars>>

\* HasPendingData (EvenniaPlugin.cpp:186-211).
HasPendingDataResult(c) ==
    IF c = 0 THEN Refused
    ELSE IF ~IsValid(c) THEN Refused
    ELSE IF GetSocket(c) = 0 THEN Refused
    ELSE [Refused EXCEPT !.ret = FSocket_HasPendingData(socks[GetSocket(c)]),
                         !.calls = 1, !.sock = socks[GetSocket(c)]]

HasPendingData ==
    \E c \in ConnArgs :
        LET r == HasPendingDataResult(c)
        IN /\ slast' = [SNone EXCEPT !.op = "HasPendingData", !.conn = c,
                           !.desc = GetSocket(c), !.wasClosed = WasClosed(c), !.live = IsLive(c),
                           !.validAfter = USocket_IsValid(c),
                           !.ret = r.ret, !.fault = r.fault, !.calls = r.calls]
           /\ UNCHANGED <<socks, conns, jvars>>

\* CloseConnection without the test of the descriptor: Close() is called
\* through a null FSocket pointer.
CloseConnectionResult_NoDescriptorCheck(c, osOK) ==
    IF c = 0 THEN Refused
    ELSE IF ~IsValid(c) THEN Refused
    ELSE IF GetSocket(c) = 0 THEN [Refused EXCEPT !.fault = TRUE]
    ELSE LET r == FSocket_Close(socks[GetSocket(c)], osOK)
         IN [Refused EXCEPT !.ret = r.ret, !.calls = 1, !.sock = r.sock]

\* CloseConnection (EvenniaPlugin.cpp:213-236).
CloseConnectionResult(c, osOK) ==
    IF c = 0 THEN Refused
    ELSE IF ~IsValid(c) THEN Refused
    ELSE IF GetSocket(c) = 0 THEN Refused
    ELSE LET r == FSocket_Close(socks[GetSocket(c)], osOK)
         IN [Refused EXCEPT !.ret = r.ret, !.calls = 1, !.sock = r.sock]

CloseConnection ==
    \E c \in ConnArgs, osOK \in BOOLEAN :
        LET r == CloseConnectionResult(c, osOK)
            d == GetSocket(c)
        IN /\ socks' = IF r.calls > 0 THEN [socks EXCEPT ![d] = r.sock] ELSE socks
           /\ slast' = [SNone EXCEPT !.op = "CloseConnection", !.conn = c,
                           !.desc = d, !.wasClosed = WasClosed(c), !.live = IsLive(c),
                           !.validAfter = USocket_IsValid(c),
                           !.ret = r.ret, !.fault = r.fault, !.calls = r.calls]
           /\ UNCHANGED <<conns, jvars>>

\* The network delivers bytes the echo peer has sent back.
Deliver ==
    \E d \in 1..Len(socks) :
      \E k \in 1..Len(socks[d].inflight) :
        /\ socks[d].open
        /\ socks' = [socks EXCEPT ![d] = Arrive(@, k)]
        /\ slast' = [SNone EXCEPT !.op = "Deliver"]
        /\ UNCHANGED <<conns, jvars>>

SocketNext ==
    \/ Connect
    \/ NewUSocket
    \/ SendMessage
    \/ GetMessage
    \/ HasPendingData
    \/ CloseConnection
    \/ Deliver

(***************************************************************************)
(* Properties of the socket facade.                                        *)
(***************************************************************************)
TransferOps ==
    {"SendMessage", "GetMessage", "HasPendingData"}

\* C1: CloseConnection on a null Connection, on a Connection with a null
\* descriptor, or on a Connection on which CloseConnection has already
\* returned true, returns false and raises no fault.
C1_CloseIdempotent ==
    (slast.op = "CloseConnection"
        /\ (slast.conn = 0 \/ slast.desc = 0 \/ slast.wasClosed))
    => (slast.ret = FALSE /\ ~slast.fault)

\* A second CloseConnection on a connection the first one closed.
C1_Witness ==
    /\ slast.op = "CloseConnection"
    /\ slast.wasClosed
    /\ slast.calls = 1
    /\ slast.ret = FALSE

\* C2 as claimed: after CloseConnection has succeeded on a Connection, no
\* later operation on it calls into the socket or returns true, and the
\* Connection is reported invalid.
C2_ClosedIsInvalid ==
    (slast.op \in TransferOps \cup {"CloseConnection"} /\ slast.wasClosed)
    => (slast.calls = 0 /\ ~slast.ret /\ ~slast.validAfter)

\* C2 as amended: a descriptor CloseConnection has closed is never open again,
\* and every later SendMessage, GetMessage, HasPendingData and
\* CloseConnection on that Connection returns false and moves no bytes; the
\* Connection keeps its closed descriptor, so it still reports valid and the
\* facade still calls the socket (except SendMessage of an empty message),
\* which rejects the call.
C2_ClosedIsTerminal ==
    /\ \A d \in 1..Len(socks) : socks[d].closedOK => ~socks[d].open
    /\ (slast.op \in TransferOps \cup {"CloseConnection"} /\ slast.wasClosed)
       => /\ ~slast.ret
          /\ slast.nread = 0
          /\ slast.sent <= 0
          /\ slast.msgPost = slast.msgPre
          /\ slast.validAfter
          /\ (slast.op = "SendMessage" /\ slast.msg = << >>) \/ slast.calls >= 1

\* SendMessage on a closed Connection while a later Connect holds the only
\* open descriptor.
C2_Witness ==
    /\ slast.op = "SendMessage"
    /\ slast.wasClosed
    /\ slast.msg # << >>
    /\ \E d \in 1..Len(socks) : socks[d].open

\* C3 as claimed: Connect fails with a null Connection when the address does
\* not parse, when no socket is built, or when the handshake does not
\* complete; it succeeds only when none of the three happened, and then the
\* Connection is non-null with a non-null descriptor.
C3_ConnectFailsOnBadInput ==
    slast.op = "Connect"
    => /\ (~slast.parsed \/ ~slast.built \/ ~slast.shook)
          => (~slast.ret /\ slast.conn = 0)
       /\ slast.ret
          => (slast.parsed /\ slast.built /\ slast.shook
              /\ slast.conn # 0 /\ slast.desc # 0)

\* C4: on a null Connection or a Connection with a null descriptor,
\* SendMessage, GetMessage and HasPendingData return false, call nothing on
\* the socket, and leave Message and the Connection as they were.
C4_NullConnectionRefused ==
    (slast.op \in TransferOps /\ slast.desc = 0)
    => /\ ~slast.ret
       /\ ~slast.fault
       /\ slast.calls = 0
       /\ slast.msgPost = slast.msgPre
       /\ ~slast.validAfter

\* GetMessage on a host-constructed USocket, with a Message that holds text.
C4_Witness ==
    /\ slast.op = "GetMessage"
    /\ slast.conn # 0
    /\ slast.desc = 0
    /\ slast.msgPre = <<120>>

\* C5 as claimed, for a message that is not empty: SendMessage on a Connected
\* connection issues exactly one write, and returns true exactly when that
\* write reported success and sent every byte of the message.
C5_SendAllOrFalse ==
    (slast.op = "SendMessage" /\ slast.live /\ slast.msg # << >>)
    => /\ slast.calls = 1
       /\ slast.ret <=> (slast.wrote /\ slast.sent = Len(UTF8(slast.msg)))

\* C6 as claimed: GetMessage on a Connected connection returns true exactly
\* when at least one byte was read; when none was read it returns false and
\* leaves Message unchanged.
C6_TrueIffBytesRead ==
    (slast.op = "GetMessage" /\ slast.live)
    => /\ slast.ret <=> slast.nread >= 1
       /\ slast.nread = 0 => (~slast.ret /\ slast.msgPost = slast.msgPre)

\* C7 as claimed: with an echo peer, after Connect and one SendMessage(m)
\* that returned true, the first GetMessage called while data is pending
\* returns true with Message equal to m.
C7_EchoRoundTrip ==
    (slast.op = "GetMessage" /\ slast.scenario /\ slast.pendingAtStart)
    => (slast.ret /\ slast.msgPost = slast.m1)

(***************************************************************************)
(***************************************************************************)
(* The JSON handle facade.                                                 *)
(***************************************************************************)
(***************************************************************************)
\* Bounds of the JSON half.
\* FJsonObject nodes, the engine's shared EMPTY_OBJECT included.
MaxObjs == 4
\* UJSONHandle objects the host holds.
MaxHnds == 2
\* UJSONHandleArray objects the host holds.
MaxArrs == 2
\* UJSONValue objects the host holds.
MaxJVals == 2
\* Elements of one array.
MaxElems == 2
\* Facade calls that change a JSON object, array or handle in one run.
MaxJOps == 4
\* Facade calls that change nothing (reads, refused writes) in one run.
MaxJReads == 1

(***************************************************************************)
(* JSON values (FJsonValue).  A value is a record with its tag t: scalars  *)
(* carry their payload, an Array carries its elements (a TArray of shared  *)
(* values that nothing mutates in place), an Object carries the id of the  *)
(* FJsonObject it shares (0: a null TSharedPtr<FJsonObject>).              *)
(***************************************************************************)
NullV ==
    [t |-> "Null"]

StrV(s) ==
    [t |-> "String", s |-> s]

NumV(n) ==
    [t |-> "Number", n |-> n]

BoolV(b) ==
    [t |-> "Boolean", b |-> b]

ArrV(a) ==
    [t |-> "Array", a |-> a]

ObjV(o) ==
    [t |-> "Object", o |-> o]

\* A UJSONValue whose JSONValue pointer is null.
NoValue ==
    [t |-> "nullptr"]

\* An FJsonObject with no fields (TMap<FString, TSharedPtr<FJsonValue>>).
EmptyMap ==
    [k \in {} |-> NullV]

\* TMap::Add: the key is unique, the last write wins.
Put(f, k, v) ==
    [x \in (DOMAIN f) \cup {k} |-> IF x = k THEN v ELSE f[x]]

\* The field names, strings and numbers the host passes. A host passes
\* either the empty name and a plain one, or a plain one and one with an
\* escape sequence in it: backslash and n, two characters.
PlainNames ==
    {"", "k"}

EscapedNames ==
    {"k", "k\\n"}

Names ==
    names

Strs ==
    {"x"}

Nums ==
    {1}

\* FString::ReplaceEscapedCharWithChar: a backslash escape in the string
\* becomes the character it names, so "k\\n" (k, backslash, n) becomes "k\n"
\* (k, newline); a string without escapes is unchanged.
ReplaceEscapedCharWithChar(s) ==
    IF s = "k\\n" THEN "k\n" ELSE s

\* The order in which a TMap is walked, as an order on all keys.
KeyOrder ==
    <<"", "k", "k\n", "k\\n">>

\* The id of the engine's static FJsonValue::EMPTY_OBJECT, which AsObject()
\* returns for a value that is not an object.
EMPTY_OBJECT ==
    1

(***************************************************************************)
(* JSON text, as the sequence of its tokens.                               *)
(***************************************************************************)
Tok(k) ==
    [k |-> k, s |-> "", n |-> 0]

StrTok(s) ==
    [k |-> "str", s |-> s, n |-> 0]

NumTok(n) ==
    [k |-> "num", s |-> "", n |-> n]

\* The writer's escaping of a string, and the reader's unescaping.
EscapeJson(s) ==
    IF s = "k\n" THEN "k\\n" ELSE IF s = "k\\n" THEN "k\\\\n" ELSE s

UnescapeJson(s) ==
    IF s = "k\\n" THEN "k\n" ELSE IF s = "k\\\\n" THEN "k\\n" ELSE s

\* The engine builds: check() and the checks of TSharedPtr are compiled in
\* ("checked": Debug, Development) or out ("shipping").
Builds ==
    {"checked", "shipping"}

(***************************************************************************)
(* FJsonSerializer::Serialize with TJsonWriter.  The result is the text    *)
(* written, or a fault (a null FJsonObject is dereferenced, or a check()   *)
(* of the writer fails), or no result at all (the walk of a cyclic object  *)
(* graph does not end).                                                    *)
(***************************************************************************)
SerOK(toks) ==
    [st |-> "ok", toks |-> toks]

SerEnd(st) ==
    [st |-> st, toks |-> << >>]

\* The keys of object map f in walk order.
RECURSIVE KeysFrom(_, _)
KeysFrom(f, i) ==
    IF i > Len(KeyOrder) THEN << >>
    ELSE (IF KeyOrder[i] \in DOMAIN f THEN <<KeyOrder[i]>> ELSE << >>)
         \o KeysFrom(f, i + 1)

RECURSIVE SerValue(_, _, _, _, _, _)
RECURSIVE SerFields(_, _, _, _, _, _)
RECURSIVE SerElems(_, _, _, _, _)
\* One element of the serializer's stack: value v written under identifier
\* id; inObj says whether the enclosing container is an object.  An empty
\* identifier makes the serializer call the writer without an identifier,
\* which inside an object fails the writer's check() in a checked build and
\* writes the bare value in a shipping build.
SerValue(heap, v, id, inObj, seen, build) ==
    IF id = "" /\ inObj /\ build = "checked" THEN SerEnd("fault")
    ELSE
    LET head == IF id = "" THEN << >> ELSE <<StrTok(EscapeJson(id)), Tok(":")>>
    IN CASE v.t = "Null" -> SerOK(head \o <<Tok("null")>>)
         [] v.t = "String" -> SerOK(head \o <<StrTok(EscapeJson(v.s))>>)
         [] v.t = "Number" -> SerOK(head \o <<NumTok(v.n)>>)
         [] v.t = "Boolean" -> SerOK(head \o <<Tok(IF v.b THEN "true" ELSE "false")>>)
         [] v.t = "Array" ->
              LET r == SerElems(heap, v.a, 1, seen, build)
              IN IF r.st = "ok"
                 THEN SerOK(head \o <<Tok("[")>> \o r.toks \o <<Tok("]")>>)
                 ELSE r
         [] v.t = "Object" ->
              IF v.o = 0 THEN SerEnd("fault")
              ELSE IF v.o \in seen THEN SerEnd("hang")
              ELSE LET r == SerFields(heap, heap[v.o], KeysFrom(heap[v.o], 1), 1,
                                      seen \cup {v.o}, build)
                   IN IF r.st = "ok"
                      THEN SerOK(head \o <<Tok("{")>> \o r.toks \o <<Tok("}")>>)
                      ELSE r
         [] OTHER -> SerEnd("fault")

\* The fields of object map f from the i-th key on, comma-separated.
SerFields(heap, f, keys, i, seen, build) ==
    IF i > Len(keys) THEN SerOK(<< >>)
    ELSE LET r == SerValue(heap, f[keys[i]], keys[i], TRUE, seen, build)
             rest == SerFields(heap, f, keys, i + 1, seen, build)
         IN IF r.st # "ok" THEN r
            ELSE IF rest.st # "ok" THEN rest
            ELSE SerOK(r.toks \o (IF i < Len(keys) THEN <<Tok(",")>> ELSE << >>)
                       \o rest.toks)

\* The elements of array a from the i-th on, comma-separated.
SerElems(heap, a, i, seen, build) ==
    IF i > Len(a) THEN SerOK(<< >>)
    ELSE LET r == SerValue(heap, a[i], "", FALSE, seen, build)
             rest == SerElems(heap, a, i + 1, seen, build)
         IN IF r.st # "ok" THEN r
            ELSE IF rest.st # "ok" THEN rest
            ELSE SerOK(r.toks \o (IF i < Len(a) THEN <<Tok(",")>> ELSE << >>)
                       \o rest.toks)

\* FJsonSerializer::Serialize(Object.ToSharedRef(), Writer)
SerializeObject(heap, o, build) ==
    SerValue(heap, ObjV(o), "", FALSE, {}, build)

\* FJsonSerializer::Serialize(Array, Writer)
SerializeArray(heap, a, build) ==
    SerValue(heap, ArrV(a), "", FALSE, {}, build)

(***************************************************************************)
(* FJsonSerializer::Deserialize with TJsonReader: a recursive-descent      *)
(* reading of the tokens.  Every object read is a new FJsonObject, added   *)
(* to the heap.                                                            *)
(***************************************************************************)
PFail(heap) ==
    [ok |-> FALSE, v |-> NullV, i |-> 0, heap |-> heap]

POK(v, i, heap) ==
    [ok |-> TRUE, v |-> v, i |-> i, heap |-> heap]

TokAt(toks, i) ==
    IF i <= Len(toks) THEN toks[i] ELSE Tok("eof")

RECURSIVE PValue(_, _, _)
RECURSIVE PElems(_, _, _, _)
RECURSIVE PMembers(_, _, _, _)
PValue(toks, i, heap) ==
    LET tk == TokAt(toks, i)
    IN CASE tk.k = "null" -> POK(NullV, i + 1, heap)
         [] tk.k = "true" -> POK(BoolV(TRUE), i + 1, heap)
         [] tk.k = "false" -> POK(BoolV(FALSE), i + 1, heap)
         [] tk.k = "num" -> POK(NumV(tk.n), i + 1, heap)
         [] tk.k = "str" -> POK(StrV(UnescapeJson(tk.s)), i + 1, heap)
         [] tk.k = "[" ->
              IF TokAt(toks, i + 1).k = "]" THEN POK(ArrV(<< >>), i + 2, heap)
              ELSE PElems(toks, i + 1, heap, << >>)
         [] tk.k = "{" ->
              IF TokAt(toks, i + 1).k = "}"
              THEN POK(ObjV(Len(heap) + 1), i + 2, Append(heap, EmptyMap))
              ELSE PMembers(toks, i + 1, heap, EmptyMap)
         [] OTHER -> PFail(heap)

PElems(toks, i, heap, acc) ==
    LET r == PValue(toks, i, heap)
    IN IF ~r.ok THEN PFail(heap)
       ELSE IF TokAt(toks, r.i).k = ","
            THEN PElems(toks, r.i + 1, r.heap, Append(acc, r.v))
       ELSE IF TokAt(toks, r.i).k = "]"
            THEN POK(ArrV(Append(acc, r.v)), r.i + 1, r.heap)
       ELSE PFail(heap)

PMembers(toks, i, heap, f) ==
    IF TokAt(toks, i).k # "str" \/ TokAt(toks, i + 1).k # ":" THEN PFail(heap)
    ELSE LET r == PValue(toks, i + 2, heap)
             g == Put(f, UnescapeJson(toks[i].s), r.v)
         IN IF ~r.ok THEN PFail(heap)
            ELSE IF TokAt(toks, r.i).k = ","
                 THEN PMembers(toks, r.i + 1, r.heap, g)
            ELSE IF TokAt(toks, r.i).k = "}"
                 THEN POK(ObjV(Len(r.heap) + 1), r.i + 1, Append(r.heap, g))
            ELSE PFail(heap)

\* Deserialize: the whole text is one value of the wanted kind.
Deserialize(toks, heap, kind) ==
    LET r == PValue(toks, 1, heap)
    IN IF r.ok /\ r.i = Len(toks) + 1 /\ r.v.t = kind THEN r ELSE PFail(heap)

(***************************************************************************)
(* The state of the JSON half.                                             *)
(***************************************************************************)
\* Values a caller's output variable may hold before a call.
StaleText ==
    <<Tok("null")>>

\* What the caller's output variables hold before a call: what earlier calls
\* left in them, with either value of a Success flag.
Stale(succ) ==
    [str |-> "stale", num |-> 7, text |-> StaleText, succ |-> succ,
     type |-> "String"]

Pres ==
    {Stale(FALSE), Stale(TRUE)}

\* The same for a call that has no Success flag.
PresNoFlag ==
    {Stale(FALSE)}

\* jlast: op and its arguments (h, a, v, name); inv: a handle argument was
\* null or its resource absent; fault: the call dereferenced an absent
\* resource or failed an engine check; hang: the call does not return;
\* wrote: an object or an array the host can reach was changed; the xPre /
\* xPost pairs are an output variable before and after the call; ret is the
\* kind of handle returned ("none", "null", "invalid", "valid") and retId
\* the handle.
JNone ==
    [op |-> "none", h |-> 0, a |-> 0, v |-> 0, idx |-> 0, name |-> "", inv |-> FALSE,
     fault |-> FALSE, hang |-> FALSE, wrote |-> FALSE, build |-> "checked",
     strPre |-> "", strPost |-> "", numPre |-> 0, numPost |-> 0,
     textPre |-> << >>, textPost |-> << >>, succPre |-> FALSE, succPost |-> FALSE,
     cntPre |-> 0, cntPost |-> 0, typePre |-> "None", typePost |-> "None", keysPost |-> << >>,
     ret |-> "none", retId |-> 0]

JSONInitWith(hostNames) ==
    /\ objs = <<EmptyMap>>
    /\ hnds = << >>
    /\ arrs = << >>
    /\ jvals = << >>
    /\ jops = 0
    /\ jreads = 0
    /\ jlast = JNone
    /\ names = hostNames

JSONInit ==
    JSONInitWith(PlainNames)

HandleArgs ==
    0..Len(hnds)

ArrayArgs ==
    0..Len(arrs)

ValueArgs ==
    0..Len(jvals)

\* UJSONHandle::IsValid (header 50-53), for a non-null handle.
UJSONHandle_IsValid(h) ==
    hnds[h] # 0

\* UJSONValue::IsValid (header 36-39), for a non-null value handle.
UJSONValue_IsValid(v) ==
    jvals[v].t # "nullptr"

\* The guard "JSONHandle && JSONHandle->IsValid()".
HandleOK(h) ==
    h # 0 /\ UJSONHandle_IsValid(h)

\* The guard "JSONValue && JSONValue->IsValid()".
ValueOK(v) ==
    v # 0 /\ UJSONValue_IsValid(v)

\* The JSONObject of a handle; 0 for a null handle too.
ObjOf(h) ==
    IF h = 0 THEN 0 ELSE hnds[h]

(***************************************************************************)
(* FJsonObject and FJsonValue, on one object map f or one value v.         *)
(***************************************************************************)
SetStringField(f, name, s) ==
    Put(f, name, StrV(s))

SetNumberField(f, name, n) ==
    Put(f, name, NumV(n))

\* A null object is stored as a Null value.
SetObjectField(f, name, o) ==
    Put(f, name, IF o # 0 THEN ObjV(o) ELSE NullV)

\* The TArray is copied into the new FJsonValueArray.
SetArrayField(f, name, a) ==
    Put(f, name, ArrV(a))

\* FString::SanitizeFloat of the numbers of the model.
SanitizeFloat(n) ==
    CASE n = 0 -> "0" [] n = 1 -> "1" [] n = 7 -> "7" [] OTHER -> "n"

\* FJsonValue::TryGetString / TryGetNumber: ok says whether the value has
\* that form.
TryGetString(v) ==
    CASE v.t = "String" -> [ok |-> TRUE, s |-> v.s]
      [] v.t = "Number" -> [ok |-> TRUE, s |-> SanitizeFloat(v.n)]
      [] v.t = "Boolean" -> [ok |-> TRUE, s |-> IF v.b THEN "true" ELSE "false"]
      [] OTHER -> [ok |-> FALSE, s |-> ""]

\* A String has a number form if FString::IsNumeric holds, and then Atod
\* gives it; none of the strings of the model is numeric.
TryGetNumber(v) ==
    CASE v.t = "Number" -> [ok |-> TRUE, n |-> v.n]
      [] v.t = "String" -> [ok |-> FALSE, n |-> 0]
      [] v.t = "Boolean" -> [ok |-> TRUE, n |-> IF v.b THEN 1 ELSE 0]
      [] OTHER -> [ok |-> FALSE, n |-> 0]

\* FJsonObject::TryGetStringField / TryGetNumberField: out is left alone
\* when the field is missing or has no such form.
TryGetStringField(f, name, out) ==
    IF name \in DOMAIN f /\ TryGetString(f[name]).ok
    THEN TryGetString(f[name]).s ELSE out

TryGetNumberField(f, name, out) ==
    IF name \in DOMAIN f /\ TryGetNumber(f[name]).ok
    THEN TryGetNumber(f[name]).n ELSE out

\* FJsonValue::AsObject: the shared object of an Object value (null if it
\* holds none), the engine's EMPTY_OBJECT for a value of another tag.
AsObject(v) ==
    IF v.t = "Object" THEN v.o ELSE EMPTY_OBJECT

\* FJsonValue::AsArray: a copy of the elements, the empty array for a value
\* of another tag.
AsArray(v) ==
    IF v.t = "Array" THEN v.a ELSE << >>

\* FJsonValue::AsString
AsString(v) ==
    TryGetString(v).s

\* FJsonObject::GetObjectField: a missing field or a field of another tag
\* reads as a Null value.
GetObjectField(f, name) ==
    AsObject(IF name \in DOMAIN f /\ f[name].t = "Object" THEN f[name] ELSE NullV)

(***************************************************************************)
(* The JSON facade.  XxxResult is the body of handler Xxx as a function of *)
(* its arguments and the state; the action Xxx applies it.                 *)
(***************************************************************************)
\* An object or an array that existed before the call differs after it.
Wrote(o2, a2) ==
    \/ \E i \in 1..Len(objs) : o2[i] # objs[i]
    \/ \E i \in 1..Len(arrs) : a2[i] # arrs[i]

\* One facade call: the new objects, handles, arrays and value handles, and
\* the record of the call.  A call that changes anything counts in jops,
\* a call that changes nothing (a read, or a write that is refused) in jreads.
JStep(rec, o2, h2, a2, v2) ==
    LET changed == <<o2, h2, a2, v2>> # <<objs, hnds, arrs, jvals>>
    IN /\ changed => jops < MaxJOps
       /\ ~changed => jreads < MaxJReads
       /\ Len(o2) <= MaxObjs
       /\ Len(h2) <= MaxHnds
       /\ Len(a2) <= MaxArrs
       /\ Len(v2) <= MaxJVals
       /\ \A i \in 1..Len(a2) : Len(a2[i]) <= MaxElems
       /\ objs' = o2
       /\ hnds' = h2
       /\ arrs' = a2
       /\ jvals' = v2
       /\ jops' = IF changed THEN jops + 1 ELSE jops
       /\ jreads' = IF changed THEN jreads ELSE jreads + 1
       /\ jlast' = [rec EXCEPT !.wrote = Wrote(o2, a2)]
       /\ names' = names
       /\ UNCHANGED svars

\* The kind of the handle a call returned.
RetKind(h2, h) ==
    IF h = 0 THEN "null" ELSE IF h2[h] = 0 THEN "invalid" ELSE "valid"

\* NewJSONValue (EvenniaPlugin.cpp:238-242): JSONValue is left null.
NewJSONValue ==
    /\ Len(jvals) < MaxJVals
    /\ JStep([JNone EXCEPT !.op = "NewJSONValue", !.ret = "invalid",
                           !.retId = Len(jvals) + 1],
             objs, hnds, arrs, Append(jvals, NoValue))

\* EvenniaNewJSONObject (EvenniaPlugin.cpp:244-249).
EvenniaNewJSONObject ==
    /\ Len(hnds) < MaxHnds
    /\ JStep([JNone EXCEPT !.op = "EvenniaNewJSONObject", !.ret = "valid",
                           !.retId = Len(hnds) + 1],
             Append(objs, EmptyMap), Append(hnds, Len(objs) + 1), arrs, jvals)

\* EvenniaNewJSONObjectArray (EvenniaPlugin.cpp:251-255).
EvenniaNewJSONObjectArray ==
    /\ Len(arrs) < MaxArrs
    /\ JStep([JNone EXCEPT !.op = "EvenniaNewJSONObjectArray", !.ret = "valid",
                           !.retId = Len(arrs) + 1],
             objs, hnds, Append(arrs, << >>), jvals)

\* EvenniaAddJSONElement without the test of line 264 for an empty name.
EvenniaAddJSONElementResult_AnyName(h, Name, Value) ==
    IF HandleOK(h)
    THEN [objs EXCEPT ![hnds[h]] = SetStringField(@, Name, Value)]
    ELSE objs

\* EvenniaAddJSONElement (EvenniaPlugin.cpp:257-282): the objects after it.
EvenniaAddJSONElementResult(h, Name, Value) ==
    IF HandleOK(h)
    THEN IF Name # ""
         THEN [objs EXCEPT ![hnds[h]] = SetStringField(@, Name, Value)]
         ELSE objs
    ELSE objs

EvenniaAddJSONElement ==
    \E h \in HandleArgs, Name \in Names, Value \in Strs :
        JStep([JNone EXCEPT !.op = "EvenniaAddJSONElement", !.h = h,
                            !.name = Name, !.inv = ~HandleOK(h)],
              EvenniaAddJSONElementResult(h, Name, Value), hnds, arrs, jvals)

\* EvenniaAddJSONNumericElement (EvenniaPlugin.cpp:284-302).
EvenniaAddJSONNumericElementResult(h, Name, Value) ==
    IF HandleOK(h)
    THEN LET NewName == ReplaceEscapedCharWithChar(Name)
         IN [objs EXCEPT ![hnds[h]] = SetNumberField(@, NewName, Value)]
    ELSE objs

EvenniaAddJSONNumericElement ==
    \E h \in HandleArgs, Name \in Names, Value \in Nums :
        JStep([JNone EXCEPT !.op = "EvenniaAddJSONNumericElement", !.h = h,
                            !.name = Name, !.inv = ~HandleOK(h)],
              EvenniaAddJSONNumericElementResult(h, Name, Value), hnds, arrs, jvals)

\* EvenniaAddJSONObject (EvenniaPlugin.cpp:304-322): Value is only tested
\* for null, and the field is written under Name as given.
EvenniaAddJSONObjectResult(h, Name, Value) ==
    IF HandleOK(h) /\ Value # 0
    THEN [objs EXCEPT ![hnds[h]] = SetObjectField(@, Name, hnds[Value])]
    ELSE objs

EvenniaAddJSONObject ==
    \E h \in HandleArgs, Name \in Names, Value \in HandleArgs :
        JStep([JNone EXCEPT !.op = "EvenniaAddJSONObject", !.h = h, !.v = Value,
                            !.name = Name,
                            !.inv = ~HandleOK(h) \/ ~HandleOK(Value)],
              EvenniaAddJSONObjectResult(h, Name, Value), hnds, arrs, jvals)

\* EvenniaAddJSONObjectToArray (EvenniaPlugin.cpp:324-342): both pointers
\* are only tested for null.
EvenniaAddJSONObjectToArrayResult(a, Value) ==
    IF a # 0 /\ Value # 0
    THEN [arrs EXCEPT ![a] = Append(@, ObjV(hnds[Value]))]
    ELSE arrs

EvenniaAddJSONObjectToArray ==
    \E a \in ArrayArgs, Value \in HandleArgs :
        JStep([JNone EXCEPT !.op = "EvenniaAddJSONObjectToArray", !.a = a,
                            !.v = Value, !.inv = a = 0 \/ ~HandleOK(Value)],
              objs, hnds, EvenniaAddJSONObjectToArrayResult(a, Value), jvals)

\* EvenniaAddJSONArrayToObject (EvenniaPlugin.cpp:344-361) on a handle that
\* is null (isNull) or has JSONObject o: the objects after it.
EvenniaAddJSONArrayToObjectResult(isNull, o, Name, Value) ==
    IF ~isNull /\ o # 0 /\ Value # 0
    THEN [objs EXCEPT ![o] = SetArrayField(@, Name, arrs[Value])]
    ELSE objs

EvenniaAddJSONArrayToObject ==
    \E h \in HandleArgs, Name \in Names, Value \in ArrayArgs :
        JStep([JNone EXCEPT !.op = "EvenniaAddJSONArrayToObject", !.h = h,
                            !.a = Value, !.name = Name,
                            !.inv = ~HandleOK(h) \/ Value = 0],
              EvenniaAddJSONArrayToObjectResult(h = 0, ObjOf(h), Name, Value),
              hnds, arrs, jvals)

\* EvenniaAddJSONArrayToArray (EvenniaPlugin.cpp:365-385): the wrapper is a
\* NewObject<UJSONHandle>(), whose JSONObject is null, so the inner
\* EvenniaAddJSONArrayToObject takes its null-pointer branch and the value
\* appended holds that null JSONObject.
EvenniaAddJSONArrayToArrayResult(a, Name, Value) ==
    IF a # 0 /\ Value # 0
    THEN LET JSONObject == 0
             o2 == EvenniaAddJSONArrayToObjectResult(FALSE, JSONObject, Name, Value)
         IN [objs |-> o2, arrs |-> [arrs EXCEPT ![a] = Append(@, ObjV(JSONObject))]]
    ELSE [objs |-> objs, arrs |-> arrs]

EvenniaAddJSONArrayToArray ==
    \E a \in ArrayArgs, Name \in Names, Value \in ArrayArgs :
        LET r == EvenniaAddJSONArrayToArrayResult(a, Name, Value)
        IN JStep([JNone EXCEPT !.op = "EvenniaAddJSONArrayToArray", !.a = a,
                               !.v = Value, !.name = Name,
                               !.inv = a = 0 \/ Value = 0],
                 r.objs, hnds, r.arrs, jvals)

\* EvenniaGetJSONElement (EvenniaPlugin.cpp:387-406): Value after the call.
EvenniaGetJSONElementResult(h, Name, Value) ==
    IF HandleOK(h)
    THEN LET NewName == ReplaceEscapedCharWithChar(Name)
         IN TryGetStringField(objs[hnds[h]], NewName, "")
    ELSE Value

EvenniaGetJSONElement ==
    \E h \in HandleArgs, Name \in Names, pre \in PresNoFlag :
        JStep([JNone EXCEPT !.op = "EvenniaGetJSONElement", !.h = h,
                            !.name = Name, !.inv = ~HandleOK(h),
                            !.strPre = pre.str,
                            !.strPost = EvenniaGetJSONElementResult(h, Name, pre.str)],
              objs, hnds, arrs, jvals)

\* EvenniaGetJSONNumericElement (EvenniaPlugin.cpp:408-429): Value after the
\* call.  The numbers of the model are exact as float and as double.
EvenniaGetJSONNumericElementResult(h, Name, Value) ==
    IF HandleOK(h)
    THEN LET NewName == ReplaceEscapedCharWithChar(Name)
         IN TryGetNumberField(objs[hnds[h]], NewName, 0)
    ELSE Value

EvenniaGetJSONNumericElement ==
    \E h \in HandleArgs, Name \in Names, pre \in PresNoFlag :
        JStep([JNone EXCEPT !.op = "EvenniaGetJSONNumericElement", !.h = h,
                            !.name = Name, !.inv = ~HandleOK(h),
                            !.numPre = pre.num,
                            !.numPost = EvenniaGetJSONNumericElementResult(h, Name, pre.num)],
              objs, hnds, arrs, jvals)

\* EvenniaGetJSONObject (EvenniaPlugin.cpp:432-453): the JSONObject of the
\* handle returned.
EvenniaGetJSONObjectResult(h, Name) ==
    IF HandleOK(h)
    THEN LET NewName == ReplaceEscapedCharWithChar(Name)
         IN GetObjectField(objs[hnds[h]], NewName)
    ELSE 0

EvenniaGetJSONObject ==
    \E h \in HandleArgs, Name \in Names :
        LET h2 == Append(hnds, EvenniaGetJSONObjectResult(h, Name))
        IN JStep([JNone EXCEPT !.op = "EvenniaGetJSONObject", !.h = h,
                               !.name = Name, !.inv = ~HandleOK(h),
                               !.ret = RetKind(h2, Len(h2)), !.retId = Len(h2)],
                 objs, h2, arrs, jvals)

\* What a serializing handler leaves in Value and Success, given what the
\* engine's serializer did: a fault or a walk without end is not caught by
\* the handler's catch (...), and the caller gets nothing back.
Serialized(s) ==
    [fault |-> s.st = "fault", hang |-> s.st = "hang",
     Value |-> s.toks, Success |-> s.st = "ok"]

\* EvenniaSerializeJSONObject (EvenniaPlugin.cpp:478-502).
EvenniaSerializeJSONObjectResult(h, Value, Success, build) ==
    IF HandleOK(h)
    THEN Serialized(SerializeObject(objs, hnds[h], build))
    ELSE [fault |-> FALSE, hang |-> FALSE, Value |-> Value, Success |-> Success]

EvenniaSerializeJSONObject ==
    \E h \in HandleArgs, pre \in Pres, build \in Builds :
        LET r == EvenniaSerializeJSONObjectResult(h, pre.text, pre.succ, build)
        IN JStep([JNone EXCEPT !.op = "EvenniaSerializeJSONObject", !.h = h,
                               !.inv = ~HandleOK(h), !.build = build,
                               !.fault = r.fault, !.hang = r.hang,
                               !.textPre = pre.text, !.textPost = r.Value,
                               !.succPre = pre.succ, !.succPost = r.Success],
                 objs, hnds, arrs, jvals)

\* EvenniaSerializeJSONObjectArray (EvenniaPlugin.cpp:504-538).
EvenniaSerializeJSONObjectArrayResult(a, Value, Success, build) ==
    IF a # 0
    THEN Serialized(SerializeArray(objs, arrs[a], build))
    ELSE [fault |-> FALSE, hang |-> FALSE, Value |-> Value, Success |-> Success]

EvenniaSerializeJSONObjectArray ==
    \E a \in ArrayArgs, pre \in Pres, build \in Builds :
        LET r == EvenniaSerializeJSONObjectArrayResult(a, pre.text, pre.succ, build)
        IN JStep([JNone EXCEPT !.op = "EvenniaSerializeJSONObjectArray", !.a = a,
                               !.inv = a = 0, !.build = build,
                               !.fault = r.fault, !.hang = r.hang,
                               !.textPre = pre.text, !.textPost = r.Value,
                               !.succPre = pre.succ, !.succPost = r.Success],
                 objs, hnds, arrs, jvals)

\* The texts the host parses: an object, an array, a text cut short, and
\* the text the last serializing call wrote.
TextObject ==
    <<Tok("{"), StrTok("k"), Tok(":"), StrTok("x"), Tok("}")>>

TextArray ==
    <<Tok("["), Tok("{"), Tok("}"), Tok(","), NumTok(1), Tok("]")>>

TextMalformed ==
    <<Tok("{"), StrTok("k")>>

\* Literals of the remaining tags: null and a Boolean, a string and an
\* array, and null and a Boolean under keys.
TextLiterals ==
    <<Tok("["), Tok("null"), Tok(","), Tok("true"), Tok("]")>>

TextStrings ==
    <<Tok("["), StrTok("x"), Tok(","), Tok("["), Tok("]"), Tok("]")>>

TextFlag ==
    <<Tok("{"), StrTok(""), Tok(":"), Tok("null"), Tok(","),
      StrTok("k"), Tok(":"), Tok("false"), Tok("}")>>

ParseTexts ==
    {TextObject, TextArray, TextMalformed, TextLiterals, TextStrings, TextFlag}
    \cup (IF /\ jlast.op \in {"EvenniaSerializeJSONObject",
                              "EvenniaSerializeJSONObjectArray"}
             /\ jlast.succPost /\ ~jlast.inv
          THEN {jlast.textPost} ELSE {})

\* EvenniaParseString without line 592, which clears Success on entry.
EvenniaParseStringResult_NoReset(h, JSONString, Success) ==
    IF HandleOK(h)
    THEN LET r == Deserialize(JSONString, objs, "Object")
         IN IF r.ok
            THEN [objs |-> r.heap, hnds |-> [hnds EXCEPT ![h] = r.v.o],
                  Success |-> TRUE]
            ELSE [objs |-> objs, hnds |-> hnds, Success |-> Success]
    ELSE [objs |-> objs, hnds |-> hnds, Success |-> Success]

\* EvenniaParseString (EvenniaPlugin.cpp:590-613): on success the handle's
\* JSONObject is replaced by the object read.
EvenniaParseStringResult(h, JSONString, Success) ==
    IF HandleOK(h)
    THEN LET r == Deserialize(JSONString, objs, "Object")
         IN IF r.ok
            THEN [objs |-> r.heap, hnds |-> [hnds EXCEPT ![h] = r.v.o],
                  Success |-> TRUE]
            ELSE [objs |-> objs, hnds |-> hnds, Success |-> FALSE]
    ELSE [objs |-> objs, hnds |-> hnds, Success |-> FALSE]

EvenniaParseString ==
    \E h \in HandleArgs, JSONString \in ParseTexts, pre \in Pres :
        LET r == EvenniaParseStringResult(h, JSONString, pre.succ)
        IN JStep([JNone EXCEPT !.op = "EvenniaParseString", !.h = h,
                               !.inv = ~HandleOK(h), !.textPre = JSONString,
                               !.succPre = pre.succ, !.succPost = r.Success],
                 r.objs, r.hnds, arrs, jvals)

\* EvenniaParseMultiple (EvenniaPlugin.cpp:540-561): a new array handle is
\* returned whether or not the text is read.
EvenniaParseMultipleResult(JSONString, ElementCount, Success) ==
    LET r == Deserialize(JSONString, objs, "Array")
    IN IF r.ok
       THEN [objs |-> r.heap, arrs |-> Append(arrs, r.v.a),
             ElementCount |-> Len(r.v.a), Success |-> TRUE]
       ELSE [objs |-> objs, arrs |-> Append(arrs, << >>),
             ElementCount |-> 0, Success |-> FALSE]

EvenniaParseMultiple ==
    \E JSONString \in ParseTexts, pre \in Pres :
        LET r == EvenniaParseMultipleResult(JSONString, pre.num, pre.succ)
        IN JStep([JNone EXCEPT !.op = "EvenniaParseMultiple",
                               !.textPre = JSONString,
                               !.cntPre = pre.num, !.cntPost = r.ElementCount,
                               !.succPre = pre.succ, !.succPost = r.Success,
                               !.ret = "valid", !.retId = Len(r.arrs)],
                 r.objs, hnds, r.arrs, jvals)

\* The engine's EJson and the host enumeration EJsonType (header 18-28), by
\* ordinal: static_cast<EJsonType>(EType) keeps the ordinal.
EJson(t) ==
    CASE t = "None" -> 0 [] t = "Null" -> 1 [] t = "String" -> 2
      [] t = "Number" -> 3 [] t = "Boolean" -> 4 [] t = "Array" -> 5
      [] t = "Object" -> 6

\* The host enumeration declared without its first member.
EJsonType_NoNone(n) ==
    <<"Null", "String", "Number", "Boolean", "Array", "Object", "None">>[n + 1]

EJsonType(n) ==
    <<"None", "Null", "String", "Number", "Boolean", "Array", "Object">>[n + 1]

\* EvenniaGetJSONValueType (EvenniaPlugin.cpp:730-738): JsonType after the
\* call.
EvenniaGetJSONValueTypeResult(v, JsonType) ==
    IF ValueOK(v)
    THEN LET EType == EJson(jvals[v].t)
         IN EJsonType(EType)
    ELSE JsonType

EvenniaGetJSONValueType ==
    \E v \in ValueArgs, pre \in PresNoFlag :
        JStep([JNone EXCEPT !.op = "EvenniaGetJSONValueType", !.v = v,
                            !.inv = ~ValueOK(v), !.typePre = pre.type,
                            !.typePost = EvenniaGetJSONValueTypeResult(v, pre.type)],
              objs, hnds, arrs, jvals)

\* EvenniaJSONValueAsObject (EvenniaPlugin.cpp:740-749): the handles after
\* the call; no handle is made for an invalid value.
EvenniaJSONValueAsObjectResult(v) ==
    IF ValueOK(v) THEN Append(hnds, AsObject(jvals[v])) ELSE hnds

EvenniaJSONValueAsObject ==
    \E v \in ValueArgs :
        LET h2 == EvenniaJSONValueAsObjectResult(v)
            h == IF ValueOK(v) THEN Len(h2) ELSE 0
        IN JStep([JNone EXCEPT !.op = "EvenniaJSONValueAsObject", !.v = v,
                               !.inv = ~ValueOK(v),
                               !.ret = RetKind(h2, h), !.retId = h],
                 objs, h2, arrs, jvals)

\* EvenniaJSONValueAsArray (EvenniaPlugin.cpp:751-760).
EvenniaJSONValueAsArrayResult(v) ==
    IF ValueOK(v) THEN Append(arrs, AsArray(jvals[v])) ELSE arrs

EvenniaJSONValueAsArray ==
    \E v \in ValueArgs :
        LET a2 == EvenniaJSONValueAsArrayResult(v)
        IN JStep([JNone EXCEPT !.op = "EvenniaJSONValueAsArray", !.v = v,
                               !.inv = ~ValueOK(v),
                               !.ret = IF ValueOK(v) THEN "valid" ELSE "null",
                               !.retId = IF ValueOK(v) THEN Len(a2) ELSE 0],
                 objs, hnds, a2, jvals)

\* EvenniaJSONValueAsString (EvenniaPlugin.cpp:762-768): Value after the
\* call.
EvenniaJSONValueAsStringResult(v, Value) ==
    IF ValueOK(v) THEN AsString(jvals[v]) ELSE Value

EvenniaJSONValueAsString ==
    \E v \in ValueArgs, pre \in PresNoFlag :
        JStep([JNone EXCEPT !.op = "EvenniaJSONValueAsString", !.v = v,
                            !.inv = ~ValueOK(v), !.strPre = pre.str,
                            !.strPost = EvenniaJSONValueAsStringResult(v, pre.str)],
              objs, hnds, arrs, jvals)

\* EvenniaGetJSONArrayHandleAsArray (EvenniaPlugin.cpp:770-785): the value
\* handles made, one per element, in order.
EvenniaGetJSONArrayHandleAsArrayResult(a) ==
    IF a # 0 THEN arrs[a] ELSE << >>

EvenniaGetJSONArrayHandleAsArray ==
    \E a \in ArrayArgs, pre \in PresNoFlag :
        LET JSONValueArray == EvenniaGetJSONArrayHandleAsArrayResult(a)
        IN JStep([JNone EXCEPT !.op = "EvenniaGetJSONArrayHandleAsArray", !.a = a,
                               !.inv = a = 0, !.cntPre = pre.num,
                               !.cntPost = Len(JSONValueArray),
                               !.retId = Len(jvals) + Len(JSONValueArray)],
                 objs, hnds, arrs, jvals \o JSONValueArray)

\* The Index values a caller passes: one below the first position, every
\* position of the longest array, and two past the last.
IndexArgs ==
    -1 .. (MaxElems + 1)

\* TArray::operator[] outside 0 .. Num()-1: the range check of a checked
\* build stops the program; a shipping build has no check and reads
\* whatever lies there, which either faults when used as a value or passes
\* for a value: one holding some object o or none, or one with some tag t,
\* of the enumeration or not.
StrayReads ==
    {[fault |-> TRUE, o |-> 0, t |-> "None"]}
    \cup {[fault |-> FALSE, o |-> o, t |-> "Object"] : o \in 0..Len(objs)}
    \cup {[fault |-> FALSE, o |-> 0, t |-> t] :
             t \in {"None", "Null", "String", "Number", "Boolean", "Array",
                    "outside EJsonType"}}

\* EvenniaGetJSONObjectFromArray (EvenniaPlugin.cpp:563-588): the guard is
\* Index <= Num(), with Index counted from 0, and Success is set before
\* the element is read. ret is the handle returned, 0 for nullptr.
EvenniaGetJSONObjectFromArrayResult(a, Index, Success, build, mem) ==
    IF a # 0
    THEN IF Index <= Len(arrs[a])
         THEN IF Index \in 0..(Len(arrs[a]) - 1)
              THEN [fault |-> FALSE, Success |-> TRUE,
                    hnds |-> Append(hnds, AsObject(arrs[a][Index + 1])),
                    ret |-> Len(hnds) + 1]
              ELSE IF build = "checked" \/ mem.fault
                   THEN [fault |-> TRUE, Success |-> TRUE, hnds |-> hnds,
                         ret |-> 0]
                   ELSE [fault |-> FALSE, Success |-> TRUE,
                         hnds |-> Append(hnds, mem.o), ret |-> Len(hnds) + 1]
         ELSE [fault |-> FALSE, Success |-> FALSE, hnds |-> hnds, ret |-> 0]
    ELSE [fault |-> FALSE, Success |-> Success, hnds |-> hnds, ret |-> 0]

EvenniaGetJSONObjectFromArray ==
    \E a \in ArrayArgs, Index \in IndexArgs, pre \in Pres, build \in Builds,
       mem \in StrayReads :
        LET r == EvenniaGetJSONObjectFromArrayResult(a, Index, pre.succ, build, mem)
        IN JStep([JNone EXCEPT !.op = "EvenniaGetJSONObjectFromArray", !.a = a,
                               !.idx = Index, !.inv = a = 0, !.build = build,
                               !.fault = r.fault, !.succPre = pre.succ,
                               !.succPost = r.Success,
                               !.ret = RetKind(r.hnds, r.ret), !.retId = r.ret],
                 objs, r.hnds, arrs, jvals)

\* EvenniaGetJSONObjectType (EvenniaPlugin.cpp:825-833): JsonType after the
\* call. Index is not compared with the length at all.
EvenniaGetJSONObjectTypeResult(a, Index, JsonType, build, mem) ==
    IF a # 0
    THEN IF Index \in 0..(Len(arrs[a]) - 1)
         THEN LET EType == EJson(arrs[a][Index + 1].t)
              IN [fault |-> FALSE, JsonType |-> EJsonType(EType)]
         ELSE IF build = "checked" \/ mem.fault
              THEN [fault |-> TRUE, JsonType |-> JsonType]
              ELSE [fault |-> FALSE, JsonType |-> mem.t]
    ELSE [fault |-> FALSE, JsonType |-> JsonType]

EvenniaGetJSONObjectType ==
    \E a \in ArrayArgs, Index \in IndexArgs, pre \in PresNoFlag,
       build \in Builds, mem \in StrayReads :
        LET r == EvenniaGetJSONObjectTypeResult(a, Index, pre.type, build, mem)
        IN JStep([JNone EXCEPT !.op = "EvenniaGetJSONObjectType", !.a = a,
                               !.idx = Index, !.inv = a = 0, !.build = build,
                               !.fault = r.fault, !.typePre = pre.type,
                               !.typePost = r.JsonType],
                 objs, hnds, arrs, jvals)

\* EvenniaGetJSONObjectKeysAndTypes (EvenniaPlugin.cpp:788-803): the map
\* and the count after the call; both are cleared first.
EvenniaGetJSONObjectKeysAndTypesResult(h, KeysAndTypes, ElementCount) ==
    LET Values == IF HandleOK(h) THEN objs[hnds[h]] ELSE EmptyMap
        NewMap == [Key \in DOMAIN Values |-> EJsonType(EJson(Values[Key].t))]
    IN [KeysAndTypes |-> NewMap, ElementCount |-> Cardinality(DOMAIN NewMap)]

EvenniaGetJSONObjectKeysAndTypes ==
    \E h \in HandleArgs, pre \in PresNoFlag :
        LET r == EvenniaGetJSONObjectKeysAndTypesResult(
                     h, [Key \in {pre.str} |-> pre.type], pre.num)
        IN JStep([JNone EXCEPT !.op = "EvenniaGetJSONObjectKeysAndTypes",
                               !.h = h, !.inv = ~HandleOK(h),
                               !.cntPre = pre.num, !.cntPost = r.ElementCount,
                               !.keysPost = r.KeysAndTypes],
                 objs, hnds, arrs, jvals)

\* EvenniaGetJSONElementMultiple (EvenniaPlugin.cpp:455-476): Value after
\* the call. Index is compared with Num() - 1 only, so a negative Index
\* reaches operator[]; the name is used as passed; AsObject() of an element
\* that holds no object is a null pointer, and the field is read through it.
EvenniaGetJSONElementMultipleResult(a, Index, Name, Value, build, mem) ==
    IF a # 0
    THEN IF Index <= Len(arrs[a]) - 1
         THEN LET stray == Index < 0
                  elem == IF stray THEN [t |-> mem.t, o |-> mem.o]
                          ELSE arrs[a][Index + 1]
                  JSONObject == AsObject(elem)
              IN IF (stray /\ (build = "checked" \/ mem.fault)) \/ JSONObject = 0
                 THEN [fault |-> TRUE, Value |-> ""]
                 ELSE [fault |-> FALSE,
                       Value |-> TryGetStringField(objs[JSONObject], Name, "")]
         ELSE [fault |-> FALSE, Value |-> ""]
    ELSE [fault |-> FALSE, Value |-> Value]

EvenniaGetJSONElementMultiple ==
    \E a \in ArrayArgs, Index \in IndexArgs, Name \in Names,
       pre \in PresNoFlag, build \in Builds, mem \in StrayReads :
        LET r == EvenniaGetJSONElementMultipleResult(a, Index, Name, pre.str,
                                                     build, mem)
        IN JStep([JNone EXCEPT !.op = "EvenniaGetJSONElementMultiple",
                               !.a = a, !.idx = Index, !.name = Name,
                               !.inv = a = 0, !.build = build,
                               !.fault = r.fault, !.strPre = pre.str,
                               !.strPost = r.Value],
                 objs, hnds, arrs, jvals)

\* The calls of the JSON facade that SpecJSON runs.
JSONNext ==
    \/ NewJSONValue
    \/ EvenniaNewJSONObject
    \/ EvenniaNewJSONObjectArray
    \/ EvenniaAddJSONElement
    \/ EvenniaAddJSONNumericElement
    \/ EvenniaAddJSONObject
    \/ EvenniaAddJSONObjectToArray
    \/ EvenniaAddJSONArrayToObject
    \/ EvenniaAddJSONArrayToArray
    \/ EvenniaGetJSONElement
    \/ EvenniaGetJSONNumericElement
    \/ EvenniaGetJSONObject
    \/ EvenniaSerializeJSONObject
    \/ EvenniaSerializeJSONObjectArray
    \/ EvenniaParseString
    \/ EvenniaParseMultiple
    \/ EvenniaGetJSONValueType
    \/ EvenniaJSONValueAsObject
    \/ EvenniaJSONValueAsArray
    \/ EvenniaJSONValueAsString
    \/ EvenniaGetJSONArrayHandleAsArray

(***************************************************************************)
(* Specifications.                                                         *)
(***************************************************************************)
Init ==
    SocketInit /\ JSONInit

\* The state after construction in a host whose field names carry an escape
\* sequence.
InitEscaped ==
    SocketInit /\ JSONInitWith(EscapedNames)

Next ==
    \/ SocketNext
    \/ JSONNext
    \/ EvenniaGetJSONObjectFromArray
    \/ EvenniaGetJSONObjectType
    \/ EvenniaGetJSONObjectKeysAndTypes
    \/ EvenniaGetJSONElementMultiple

\* The socket facade alone.
SpecSocket ==
    Init /\ [][SocketNext]_vars

\* The JSON facade alone, without the calls that read by index or list
\* the keys.
SpecJSON ==
    Init /\ [][JSONNext]_vars

\* The construction and mutation operations of the JSON facade, and the
\* serializing calls on what they built.
JSONBuildNext ==
    \/ EvenniaNewJSONObject
    \/ EvenniaNewJSONObjectArray
    \/ EvenniaAddJSONElement
    \/ EvenniaAddJSONNumericElement
    \/ EvenniaAddJSONObject
    \/ EvenniaAddJSONObjectToArray
    \/ EvenniaAddJSONArrayToObject
    \/ EvenniaAddJSONArrayToArray
    \/ EvenniaSerializeJSONObject
    \/ EvenniaSerializeJSONObjectArray

SpecJSONBuild ==
    Init /\ [][JSONBuildNext]_vars

\* Both halves, interleaved.
Spec ==
    Init /\ [][Next]_vars

(***************************************************************************)
(* Properties of the JSON facade.                                          *)
(***************************************************************************)
\* No object is reached twice on one path down from value v.
RECURSIVE Acyclic(_, _, _)
Acyclic(heap, v, seen) ==
    CASE v.t = "Object" ->
           \/ v.o = 0
           \/ /\ v.o \notin seen
              /\ \A k \in DOMAIN heap[v.o] :
                    Acyclic(heap, heap[v.o][k], seen \cup {v.o})
      [] v.t = "Array" ->
           \A i \in 1..Len(v.a) : Acyclic(heap, v.a[i], seen)
      [] OTHER -> TRUE

\* Value v1 of heap1 and value v2 of heap2 are the same tree: same tags,
\* equal scalars, the same keys in every object, the same length and order
\* in every array.
RECURSIVE SameTree(_, _, _, _)
SameTree(heap1, v1, heap2, v2) ==
    /\ v1.t = v2.t
    /\ CASE v1.t = "String" -> v1.s = v2.s
         [] v1.t = "Number" -> v1.n = v2.n
         [] v1.t = "Boolean" -> v1.b = v2.b
         [] v1.t = "Array" ->
              /\ Len(v1.a) = Len(v2.a)
              /\ \A i \in 1..Len(v1.a) : SameTree(heap1, v1.a[i], heap2, v2.a[i])
         [] v1.t = "Object" ->
              /\ v1.o # 0
              /\ v2.o # 0
              /\ DOMAIN heap1[v1.o] = DOMAIN heap2[v2.o]
              /\ \A k \in DOMAIN heap1[v1.o] :
                    SameTree(heap1, heap1[v1.o][k], heap2, heap2[v2.o][k])
         [] OTHER -> TRUE

\* Serializing object handle h and parsing the text back gives the same
\* tree, in the given build.
RoundTripObject(h, build) ==
    LET s == EvenniaSerializeJSONObjectResult(h, StaleText, FALSE, build)
        p == EvenniaParseStringResult(h, s.Value, FALSE)
    IN /\ ~s.fault
       /\ ~s.hang
       /\ s.Success
       /\ p.Success
       /\ SameTree(objs, ObjV(hnds[h]), p.objs, ObjV(p.hnds[h]))

\* The same for array handle a.
RoundTripArray(a, build) ==
    LET s == EvenniaSerializeJSONObjectArrayResult(a, StaleText, FALSE, build)
        p == EvenniaParseMultipleResult(s.Value, 7, FALSE)
    IN /\ ~s.fault
       /\ ~s.hang
       /\ s.Success
       /\ p.Success
       /\ p.ElementCount = Len(arrs[a])
       /\ SameTree(objs, ArrV(arrs[a]), p.objs, ArrV(p.arrs[Len(p.arrs)]))

\* C8 as claimed: every acyclic object or array tree built by the
\* construction and mutation operations serializes, the text parses, and
\* the tree parsed has the same key sets, array lengths and order and equal
\* scalars as the tree serialized.
C8_RoundTrip ==
    /\ \A h \in 1..Len(hnds), build \in Builds :
          HandleOK(h) /\ Acyclic(objs, ObjV(hnds[h]), {}) => RoundTripObject(h, build)
    /\ \A a \in 1..Len(arrs), build \in Builds :
          Acyclic(objs, ArrV(arrs[a]), {}) => RoundTripArray(a, build)

\* The calls that hand a result back through an output variable or a
\* returned handle, and the calls that write.
JSONReadOps ==
    {"EvenniaGetJSONElement", "EvenniaGetJSONNumericElement",
     "EvenniaGetJSONObject", "EvenniaSerializeJSONObject",
     "EvenniaSerializeJSONObjectArray", "EvenniaGetJSONValueType",
     "EvenniaJSONValueAsObject", "EvenniaJSONValueAsArray",
     "EvenniaJSONValueAsString", "EvenniaGetJSONArrayHandleAsArray"}

JSONWriteOps ==
    {"EvenniaAddJSONElement", "EvenniaAddJSONNumericElement",
     "EvenniaAddJSONObject", "EvenniaAddJSONObjectToArray",
     "EvenniaAddJSONArrayToObject", "EvenniaAddJSONArrayToArray",
     "EvenniaParseString"}

SerializeOps ==
    {"EvenniaSerializeJSONObject", "EvenniaSerializeJSONObjectArray"}

\* The last call reported its failure indicator: the empty string, zero,
\* tag None, Success = false, no handle or an invalid handle.
FailureIndicated ==
    /\ jlast.strPost = ""
    /\ jlast.numPost = 0
    /\ jlast.cntPost = 0
    /\ jlast.typePost = "None"
    /\ ~jlast.succPost
    /\ jlast.ret \in {"none", "null", "invalid"}

\* C9 as claimed: a call given a null handle, or a handle whose JSONObject
\* or JSONValue is absent, dereferences nothing absent; if it is a write no
\* object and no array changes, and if it is a read it reports its failure
\* indicator and not the value the caller's variable held.
C9_InvalidHandleSafe ==
    jlast.inv =>
        /\ ~jlast.fault
        /\ jlast.op \in JSONWriteOps => ~jlast.wrote /\ ~jlast.succPost
        /\ jlast.op \in JSONReadOps => FailureIndicated

\* C10 as claimed: a serializing call reports Success = false exactly when
\* its handle is null or its JSONObject absent, whatever Success held before
\* the call, and returns with Success = true for every valid handle.
C10_SerializeSuccess ==
    jlast.op \in SerializeOps =>
        /\ ~jlast.fault
        /\ ~jlast.hang
        /\ jlast.succPost = ~jlast.inv

(***************************************************************************)
(* Parsing text that is not JSON.                                          *)
(***************************************************************************)
\* Object handles, string fields and the two parsing calls.
SpecJSONParse ==
    Init /\ [][\/ EvenniaNewJSONObject
              \/ EvenniaAddJSONElement
              \/ EvenniaParseString
              \/ EvenniaParseMultiple]_vars

\* The reader accepts the text neither as an object nor as an array.
Malformed(JSONString) ==
    /\ ~Deserialize(JSONString, objs, "Object").ok
    /\ ~Deserialize(JSONString, objs, "Array").ok

\* C11: a parsing call given text that is not well-formed JSON reports
\* Success = false whatever Success held before; EvenniaParseString leaves
\* every handle on the object it held and every object as it was, so no
\* key of the text reaches the handle; EvenniaParseMultiple returns a new
\* array handle with zero elements and ElementCount = 0.
C11_MalformedParseFails ==
    [][LET j == jlast'
       IN /\ j.op \in {"EvenniaParseString", "EvenniaParseMultiple"}
          /\ Malformed(j.textPre)
          => /\ ~j.succPost
             /\ hnds' = hnds
             /\ objs' = objs
             /\ j.op = "EvenniaParseMultiple" =>
                   /\ j.cntPost = 0
                   /\ j.ret = "valid"
                   /\ Len(arrs') = Len(arrs) + 1
                   /\ arrs'[j.retId] = << >>
                   /\ \A a \in 1..Len(arrs) : arrs'[a] = arrs[a]]_vars

\* Malformed text was parsed into a valid handle that holds a key, by a
\* caller whose Success variable held true.
C11_Witness ==
    /\ jlast.op = "EvenniaParseString"
    /\ Malformed(jlast.textPre)
    /\ ~jlast.inv
    /\ jlast.succPre
    /\ DOMAIN objs[hnds[jlast.h]] # {}

(***************************************************************************)
(* Reading an array by index.                                              *)
(***************************************************************************)
\* Arrays built by hand or parsed, and the indexed read.
SpecJSONIndex ==
    Init /\ [][\/ EvenniaNewJSONObject
              \/ EvenniaNewJSONObjectArray
              \/ EvenniaAddJSONObjectToArray
              \/ EvenniaParseMultiple
              \/ EvenniaGetJSONObjectFromArray]_vars

\* C12 as claimed: for every array handle and every Index,
\* EvenniaGetJSONObjectFromArray returns a handle and sets Success = true
\* when 0 <= Index < length, and for every other Index sets Success = false,
\* reads no element (no fault, no handle) and returns nullptr.
C12_IndexValidated ==
    jlast.op = "EvenniaGetJSONObjectFromArray" /\ jlast.a # 0 =>
        IF jlast.idx \in 0..(Len(arrs[jlast.a]) - 1)
        THEN jlast.succPost /\ ~jlast.fault /\ jlast.ret # "null"
        ELSE ~jlast.succPost /\ ~jlast.fault /\ jlast.ret = "null"

(***************************************************************************)
(* Type tags.                                                              *)
(***************************************************************************)
\* Values parsed from literals of every tag, fields of every tag, and the
\* three calls that report a tag.
SpecJSONTypes ==
    Init /\ [][\/ EvenniaNewJSONObject
              \/ EvenniaAddJSONNumericElement
              \/ EvenniaAddJSONObject
              \/ EvenniaAddJSONArrayToObject
              \/ EvenniaParseString
              \/ EvenniaParseMultiple
              \/ EvenniaGetJSONArrayHandleAsArray
              \/ EvenniaGetJSONValueType
              \/ EvenniaGetJSONObjectType
              \/ EvenniaGetJSONObjectKeysAndTypes]_vars

\* C13: the mapping from the engine's tag to EJsonType is the identity on
\* the seven tags; EvenniaGetJSONValueType on a valid value reports that
\* value's tag, EvenniaGetJSONObjectType at a position of the array reports
\* the tag of the element there, and EvenniaGetJSONObjectKeysAndTypes on a
\* valid object reports every key of the object with the tag of its value,
\* and their number.
C13_TagsReported ==
    /\ \A t \in {"None", "Null", "String", "Number", "Boolean", "Array", "Object"} :
          EJsonType(EJson(t)) = t
    /\ jlast.op = "EvenniaGetJSONValueType" /\ ~jlast.inv =>
          jlast.typePost = jvals[jlast.v].t
    /\ /\ jlast.op = "EvenniaGetJSONObjectType"
       /\ jlast.a # 0
       /\ jlast.idx \in 0..(Len(arrs[jlast.a]) - 1)
       => /\ ~jlast.fault
          /\ jlast.typePost = arrs[jlast.a][jlast.idx + 1].t
    /\ jlast.op = "EvenniaGetJSONObjectKeysAndTypes" /\ ~jlast.inv =>
          LET Values == objs[hnds[jlast.h]]
          IN /\ DOMAIN jlast.keysPost = DOMAIN Values
             /\ \A Key \in DOMAIN Values : jlast.keysPost[Key] = Values[Key].t
             /\ jlast.cntPost = Cardinality(DOMAIN Values)

\* A Boolean parsed from text was asked for its tag by a caller whose
\* variable held another tag.
C13_Witness ==
    /\ jlast.op = "EvenniaGetJSONValueType"
    /\ ~jlast.inv
    /\ jvals[jlast.v].t = "Boolean"
    /\ jlast.typePre # "Boolean"
    /\ jlast.typePost = "Boolean"

(***************************************************************************)
(* Attaching objects and arrays.                                           *)
(***************************************************************************)
\* A host that passes a plain name and a name with an escape sequence
\* builds objects and arrays, attaches objects, reads them back and parses.
SpecJSONAlias ==
    /\ InitEscaped
    /\ [][\/ EvenniaNewJSONObject
          \/ EvenniaNewJSONObjectArray
          \/ EvenniaAddJSONElement
          \/ EvenniaAddJSONObject
          \/ EvenniaAddJSONObjectToArray
          \/ EvenniaGetJSONObject
          \/ EvenniaGetJSONObjectFromArray
          \/ EvenniaParseString]_vars

\* The object of the handle EvenniaGetJSONObjectFromArray returns for
\* position Index of array a; 0 when it returns none.
ElementObject(a, Index) ==
    LET r == EvenniaGetJSONObjectFromArrayResult(
                 a, Index, FALSE, "checked", [fault |-> TRUE, o |-> 0, t |-> "None"])
    IN IF r.ret = 0 THEN 0 ELSE r.hnds[r.ret]

\* Handle h is valid and reading position Index of array a gives a handle
\* on the object of h.
SeenInArray(h, a, Index) ==
    /\ HandleOK(h)
    /\ Index \in 0..(Len(arrs[a]) - 1)
    /\ ElementObject(a, Index) = hnds[h]

\* Handles h and p are valid and EvenniaGetJSONObject(p, Name) gives a
\* handle on the object of h.
SeenInField(h, p, Name) ==
    /\ HandleOK(h)
    /\ HandleOK(p)
    /\ EvenniaGetJSONObjectResult(p, Name) = hnds[h]

\* C14 as claimed: after EvenniaAddJSONObjectToArray(arr, obj) or
\* EvenniaAddJSONObject(parent, key, obj) with valid handles, reading the
\* new element or the field key gives a handle on the object of obj, and
\* that stays so after every later call (for a field: every later call
\* that is not made on the object of parent), so that a field written
\* through either handle is read through the other.
C14_ObjectAttachAliases ==
    [][/\ (/\ jlast.op = "EvenniaAddJSONObjectToArray"
           /\ jlast.a # 0
           /\ HandleOK(jlast.v)
           => SeenInArray(jlast.v, jlast.a, Len(arrs[jlast.a]) - 1))'
       /\ (/\ jlast.op = "EvenniaAddJSONObject"
           /\ HandleOK(jlast.h)
           /\ HandleOK(jlast.v)
           => SeenInField(jlast.v, jlast.h, jlast.name))'
       /\ \A h \in 1..Len(hnds), a \in 1..Len(arrs), Index \in 0..(MaxElems - 1) :
             SeenInArray(h, a, Index) => SeenInArray(h, a, Index)'
       /\ \A h \in 1..Len(hnds), p \in 1..Len(hnds), Name \in Names :
             SeenInField(h, p, Name) /\ ObjOf(jlast'.h) # hnds[p]
                 => SeenInField(h, p, Name)'
      ]_vars

\* A host attaches arrays to objects, takes arrays out of parsed values and
\* appends to them.
SpecJSONArrays ==
    Init /\ [][\/ EvenniaNewJSONObject
              \/ EvenniaNewJSONObjectArray
              \/ EvenniaAddJSONObjectToArray
              \/ EvenniaAddJSONArrayToObject
              \/ EvenniaAddJSONArrayToArray
              \/ EvenniaParseMultiple
              \/ EvenniaGetJSONArrayHandleAsArray
              \/ EvenniaJSONValueAsArray]_vars

\* The calls that append an element to the array they are given.
AppendOps ==
    {"EvenniaAddJSONObjectToArray", "EvenniaAddJSONArrayToArray"}

\* C15 as claimed: when the call after EvenniaAddJSONArrayToObject(obj,
\* key, arr) appends an element to arr, the array stored under key of obj
\* has the elements of arr, the new one included; and when the call after
\* EvenniaJSONValueAsArray on a value of tag Array appends an element to
\* the array handle returned, the value has the elements of that handle.
C15_ArrayAttachAliases ==
    [][/\ /\ jlast.op = "EvenniaAddJSONArrayToObject"
          /\ ~jlast.inv
          /\ jlast'.op \in AppendOps
          /\ jlast'.a = jlast.a
          /\ arrs'[jlast.a] # arrs[jlast.a]
          => objs'[hnds'[jlast.h]][jlast.name] = ArrV(arrs'[jlast.a])
       /\ /\ jlast.op = "EvenniaJSONValueAsArray"
          /\ ~jlast.inv
          /\ jvals[jlast.v].t = "Array"
          /\ jlast'.op \in AppendOps
          /\ jlast'.a = jlast.retId
          /\ arrs'[jlast.retId] # arrs[jlast.retId]
          => jvals'[jlast.v] = ArrV(arrs'[jlast.retId])
      ]_vars

(***************************************************************************)
(* Fields: reading and writing by name.                                    *)
(***************************************************************************)
\* A host that passes the empty name and a plain one writes fields of every
\* kind, parses objects and reads fields back.
SpecJSONFields ==
    Init /\ [][\/ EvenniaNewJSONObject
              \/ EvenniaNewJSONObjectArray
              \/ EvenniaAddJSONElement
              \/ EvenniaAddJSONNumericElement
              \/ EvenniaAddJSONObject
              \/ EvenniaAddJSONArrayToObject
              \/ EvenniaParseString
              \/ EvenniaGetJSONElement
              \/ EvenniaGetJSONNumericElement]_vars

\* The object of valid handle h has a field under the name a getter looks
\* up when it is given Name.
HasField(h, Name) ==
    ReplaceEscapedCharWithChar(Name) \in DOMAIN objs[hnds[h]]

\* C16 as claimed: on a valid object EvenniaGetJSONElement returns the
\* empty string and EvenniaGetJSONNumericElement returns 0 when the object
\* has no field of that name, and what the caller gets back tells a
\* missing field from a present one: the getters have no output but Value,
\* so a present field never comes back as the empty string or as 0.
C16_MissingKeyReported ==
    /\ jlast.op = "EvenniaGetJSONElement" /\ ~jlast.inv =>
          (jlast.strPost = "" <=> ~HasField(jlast.h, jlast.name))
    /\ jlast.op = "EvenniaGetJSONNumericElement" /\ ~jlast.inv =>
          (jlast.numPost = 0 <=> ~HasField(jlast.h, jlast.name))

(***************************************************************************)
(* Casting a value to a type it does not have.                             *)
(***************************************************************************)
\* Values of every tag are parsed and cast, and fields are written through
\* the object handles the casts return.
SpecJSONCast ==
    Init /\ [][\/ EvenniaParseMultiple
              \/ EvenniaGetJSONArrayHandleAsArray
              \/ EvenniaJSONValueAsObject
              \/ EvenniaJSONValueAsArray
              \/ EvenniaJSONValueAsString
              \/ EvenniaAddJSONElement]_vars

\* C17 as claimed: for every valid value the host holds, whatever was
\* called before, EvenniaJSONValueAsObject on a value that is not an Object
\* returns a handle that is invalid or on an object with no field,
\* EvenniaJSONValueAsArray on a value that is not an Array returns an array
\* handle with zero elements, and EvenniaJSONValueAsString on a Null, Array
\* or Object value gives the empty string and not what Value held.
C17_CastsDegrade ==
    \A v \in 1..Len(jvals) :
        ValueOK(v) =>
            /\ jvals[v].t # "Object" =>
                  LET h2 == EvenniaJSONValueAsObjectResult(v)
                      o == h2[Len(h2)]
                  IN o = 0 \/ objs[o] = EmptyMap
            /\ jvals[v].t # "Array" =>
                  LET a2 == EvenniaJSONValueAsArrayResult(v)
                  IN a2[Len(a2)] = << >>
            /\ jvals[v].t \in {"Null", "Array", "Object"} =>
                  EvenniaJSONValueAsStringResult(v, Stale(FALSE).str) = ""

(***************************************************************************)
(* The constructors.                                                       *)
(***************************************************************************)
\* Object o is held by a handle other than h, by a value, by an array
\* element or by a field.
SharedObject(o, h) ==
    \/ \E g \in 1..Len(hnds) : g # h /\ hnds[g] = o
    \/ \E v \in 1..Len(jvals) : jvals[v] = ObjV(o)
    \/ \E a \in 1..Len(arrs) : \E i \in 1..Len(arrs[a]) : arrs[a][i] = ObjV(o)
    \/ \E p \in 1..Len(objs) : \E Key \in DOMAIN objs[p] : objs[p][Key] = ObjV(o)

\* C18 as claimed: EvenniaNewJSONObject returns a valid handle on an object
\* with no field that nothing else holds, EvenniaNewJSONObjectArray returns
\* a handle with zero elements, and NewJSONValue returns a value handle
\* whose IsValid() is true and for which EvenniaGetJSONValueType reports a
\* tag, whatever the caller's variable held.
C18_ConstructorsInitialize ==
    /\ jlast.op = "EvenniaNewJSONObject" =>
          /\ jlast.ret = "valid"
          /\ HandleOK(jlast.retId)
          /\ objs[hnds[jlast.retId]] = EmptyMap
          /\ ~SharedObject(hnds[jlast.retId], jlast.retId)
    /\ jlast.op = "EvenniaNewJSONObjectArray" =>
          /\ jlast.ret = "valid"
          /\ arrs[jlast.retId] = << >>
    /\ jlast.op = "NewJSONValue" =>
          /\ UJSONValue_IsValid(jlast.retId)
          /\ EvenniaGetJSONValueTypeResult(jlast.retId, "None")
                = EvenniaGetJSONValueTypeResult(jlast.retId, "String")

(***************************************************************************)
(* Field names with escape sequences.                                      *)
(***************************************************************************)
\* A host that passes a plain name and a name with an escape sequence
\* writes fields and reads them back.
SpecJSONKeys ==
    /\ InitEscaped
    /\ [][\/ EvenniaNewJSONObject
          \/ EvenniaAddJSONElement
          \/ EvenniaAddJSONNumericElement
          \/ EvenniaAddJSONObject
          \/ EvenniaGetJSONElement
          \/ EvenniaGetJSONNumericElement
          \/ EvenniaGetJSONObject]_vars

\* C19 as claimed: once a setter has written a field of a valid object
\* under a name, the getter of that kind called with the same name returns
\* what was written last: the string, the number, or a handle on the
\* object attached.
C19_ExactKeys ==
    /\ jlast.op = "EvenniaAddJSONElement" /\ ~jlast.inv /\ jlast.name # "" =>
          EvenniaGetJSONElementResult(jlast.h, jlast.name, "") \in Strs
    /\ jlast.op = "EvenniaAddJSONNumericElement" /\ ~jlast.inv =>
          EvenniaGetJSONNumericElementResult(jlast.h, jlast.name, 0) \in Nums
    /\ jlast.op = "EvenniaAddJSONObject" /\ ~jlast.inv =>
          EvenniaGetJSONObjectResult(jlast.h, jlast.name) = hnds[jlast.v]

(***************************************************************************)
(* The empty field name.                                                   *)
(***************************************************************************)
\* C20: EvenniaAddJSONElement called with an empty Name changes no object,
\* while on a valid object and with a Value that is not null
\* EvenniaAddJSONNumericElement, EvenniaAddJSONObject and
\* EvenniaAddJSONArrayToObject called with an empty Name leave the number,
\* the object (Null for a handle that holds none) or the elements of the
\* array in the field named by the empty string.
C20_EmptyKeyRule ==
    jlast.name = "" =>
        /\ jlast.op = "EvenniaAddJSONElement" => ~jlast.wrote
        /\ jlast.op = "EvenniaAddJSONNumericElement" /\ HandleOK(jlast.h) =>
              /\ "" \in DOMAIN objs[hnds[jlast.h]]
              /\ objs[hnds[jlast.h]][""] \in {NumV(n) : n \in Nums}
        /\ jlast.op = "EvenniaAddJSONObject" /\ HandleOK(jlast.h) /\ jlast.v # 0 =>
              /\ "" \in DOMAIN objs[hnds[jlast.h]]
              /\ objs[hnds[jlast.h]][""] =
                    IF HandleOK(jlast.v) THEN ObjV(hnds[jlast.v]) ELSE NullV
        /\ jlast.op = "EvenniaAddJSONArrayToObject" /\ HandleOK(jlast.h) /\ jlast.a # 0 =>
              /\ "" \in DOMAIN objs[hnds[jlast.h]]
              /\ objs[hnds[jlast.h]][""] = ArrV(arrs[jlast.a])

\* EvenniaAddJSONElement was called with an empty Name on a valid object
\* that has a field under the empty name, written by another setter.
C20_Witness ==
    /\ jlast.op = "EvenniaAddJSONElement"
    /\ jlast.name = ""
    /\ ~jlast.inv
    /\ "" \in DOMAIN objs[hnds[jlast.h]]
    /\ objs[hnds[jlast.h]][""].t \in {"Number", "Object", "Array"}

(***************************************************************************)
(* Appending an array to an array.                                         *)
(***************************************************************************)
\* C21 as claimed: EvenniaAddJSONArrayToArray(arr, Name, nested) with
\* non-null arr and nested appends exactly one element to arr; that element
\* is a valid object with the single field Name, whose value is the array
\* nested; the earlier elements of arr and the contents of nested are
\* unchanged.
C21_NestedArrayAppended ==
    [][/\ jlast'.op = "EvenniaAddJSONArrayToArray"
       /\ ~jlast'.inv
       => LET a == jlast'.a
              nested == jlast'.v
              n == Len(arrs[a])
              e == arrs'[a][n + 1]
          IN /\ Len(arrs'[a]) = n + 1
             /\ SubSeq(arrs'[a], 1, n) = arrs[a]
             /\ nested # a => arrs'[nested] = arrs[nested]
             /\ e.t = "Object"
             /\ e.o # 0
             /\ DOMAIN objs'[e.o] = {jlast'.name}
             /\ objs'[e.o][jlast'.name] = ArrV(arrs[nested])
      ]_vars

(***************************************************************************)
(* Reading a field or a tag of an array element by index.                  *)
(***************************************************************************)
\* Arrays parsed from text, empty or of values of every tag, read by index;
\* an object taken out of an array can be written to.
SpecJSONElems ==
    Init /\ [][\/ EvenniaAddJSONElement
              \/ EvenniaParseMultiple
              \/ EvenniaGetJSONObjectFromArray
              \/ EvenniaGetJSONElementMultiple
              \/ EvenniaGetJSONObjectType]_vars

\* C22 as claimed: for every array handle and every Index that is negative
\* or >= length, EvenniaGetJSONElementMultiple and EvenniaGetJSONObjectType
\* read no element: neither faults, the former yields the empty string and
\* the latter leaves JsonType as it was or reports None; and
\* EvenniaGetJSONElementMultiple, given the index of an element that is not
\* an object, reads no field: it yields the empty string without a fault.
C22_ElementAccessGuarded ==
    /\ /\ jlast.op \in {"EvenniaGetJSONElementMultiple", "EvenniaGetJSONObjectType"}
       /\ ~jlast.inv
       /\ jlast.idx \notin 0..(Len(arrs[jlast.a]) - 1)
       => /\ ~jlast.fault
          /\ jlast.op = "EvenniaGetJSONElementMultiple" => jlast.strPost = ""
          /\ jlast.op = "EvenniaGetJSONObjectType"
             => jlast.typePost \in {jlast.typePre, "None"}
    /\ /\ jlast.op = "EvenniaGetJSONElementMultiple"
       /\ ~jlast.inv
       /\ jlast.idx \in 0..(Len(arrs[jlast.a]) - 1)
       /\ arrs[jlast.a][jlast.idx + 1].t # "Object"
       => ~jlast.fault /\ jlast.strPost = ""

(***************************************************************************)
(* The read loop of GetMessage.                                            *)
(***************************************************************************)
\* C23: when GetMessage has got as far as its loop, the buffer of the last
\* iteration holds at most RecvCap bytes; on return nothing is pending on
\* the socket, and unless a read failed every byte that was pending at the
\* start has been read, in order; and when it returns true, Message is the
\* decoding of what the last iteration read and of nothing read before it.
C23_LastChunkOnly ==
    [][/\ slast'.op = "GetMessage"
       /\ slast'.calls > 0
       => LET before == socks[slast'.desc]
              after == socks'[slast'.desc]
              failed == after.err /\ ~before.err
              LastRead == IF failed THEN << >>
                          ELSE Drop(slast'.allread,
                                    slast'.nread - Len(slast'.lastchunk))
          IN /\ Len(slast'.lastchunk) <= RecvCap
             /\ ~FSocket_HasPendingData(after)
             /\ ~failed => Take(slast'.allread, Len(before.pending))
                               = before.pending
             /\ slast'.ret => slast'.msgPost = AnsiToTchar(LastRead \o <<0>>)
             /\ slast'.ret /\ ~failed => slast'.lastchunk = LastRead
      ]_vars

\* GetMessage read two chunks and returned the second one alone.
C23_Witness ==
    /\ slast.op = "GetMessage"
    /\ slast.ret
    /\ slast.allread = <<97, 98>>
    /\ slast.lastchunk = <<98>>
    /\ slast.msgPost = <<98>>
    /\ ~socks[slast.desc].err

(***************************************************************************)
(* Transfer errors.                                                        *)
(***************************************************************************)
\* C24 as claimed: after SendMessage on a Connected connection has issued
\* its write and the write failed, or GetMessage on a Connected connection
\* has met a failed read, the Connection is Closed (it holds no open
\* descriptor), and the SendMessage, GetMessage or HasPendingData that
\* follows on it returns false.
C24_FatalErrorCloses ==
    [][LET c == slast.conn
           failedWrite == /\ slast.op = "SendMessage"
                          /\ slast.live
                          /\ slast.calls = 1
                          /\ ~slast.wrote
           failedRead == /\ slast.op = "GetMessage"
                         /\ slast.live
                         /\ slast.calls > 1
                         /\ socks[slast.desc].err
       IN failedWrite \/ failedRead
          => /\ ~IsLive(c)
             /\ slast'.op \in TransferOps /\ slast'.conn = c => ~slast'.ret
      ]_vars

(***************************************************************************)
(* Object values and the objects they share.                               *)
(***************************************************************************)
\* Objects and arrays are built, objects and arrays are attached to them,
\* and elements are taken out again as handles, which can be attached too.
SpecJSONAttach ==
    Init /\ [][\/ EvenniaNewJSONObject
              \/ EvenniaNewJSONObjectArray
              \/ EvenniaAddJSONObject
              \/ EvenniaAddJSONObjectToArray
              \/ EvenniaAddJSONArrayToArray
              \/ EvenniaGetJSONObjectFromArray]_vars

RECURSIVE Absent(_)
\* Value v is, or as an array holds, a value of tag Object with no object.
Absent(v) ==
    \/ v.t = "Object" /\ v.o = 0
    \/ v.t = "Array" /\ \E i \in 1..Len(v.a) : Absent(v.a[i])

\* C25 as claimed: in every reachable state no array element and no object
\* field of tag Object refers to an absent object, and a handle that
\* EvenniaGetJSONObjectFromArray has returned with Success = true for an
\* index inside the array is valid.
C25_NoAbsentObjects ==
    /\ \A a \in 1..Len(arrs) : \A i \in 1..Len(arrs[a]) : ~Absent(arrs[a][i])
    /\ \A o \in 1..Len(objs) : \A Name \in DOMAIN objs[o] : ~Absent(objs[o][Name])
    /\ /\ jlast.op = "EvenniaGetJSONObjectFromArray"
       /\ ~jlast.inv
       /\ jlast.idx \in 0..(Len(arrs[jlast.a]) - 1)
       /\ jlast.succPost
       => jlast.ret = "valid"

=============================================================================
